---------------------------- MODULE Spec2Model ----------------------------
(***************************************************************************)
(* Neural Echo: the attention-to-visualization pipeline of the front end.  *)
(*                                                                         *)
(* The model follows the JavaScript sources:                               *)
(*   static/js/app.js                 hosting application (global state)   *)
(*   static/js/network-vis.js         NetworkVisualization (SVG)           *)
(*   static/js/network-vis-canvas.js  NetworkVisualizationCanvas           *)
(*   unnamed/part_001                 AttentionHeatmap                     *)
(*   static/js/embedding-space.js     EmbeddingSpaceVisualization          *)
(*   static/js/layer-flow.js          LayerFlowVisualization               *)
(*                                                                         *)
(* Attention weights are fixed-point numbers in thousandths: the integer   *)
(* 100 stands for the JavaScript number 0.1 and 1000 for 1.0.              *)
(* JavaScript arrays are functions over 0..length-1.                       *)
(***************************************************************************)
EXTENDS Integers, Sequences, FiniteSets, TLC

VARIABLES
    state,          \* app.js: the global `state` object
    instances,      \* every visualization object constructed so far, by id
    windowResize,   \* the listeners registered for the window's 'resize' event
    call            \* the latest direct call of a method: name, arguments, result

vars == <<state, instances, windowResize, call>>

-----------------------------------------------------------------------------
(* Bounds of the model                                                     *)

\* how many visualization objects the hosting application constructs in one run
MaxInstances == 2

\* largest maxLinks option a host other than app.js passes to a graph view
MaxCap == 2

\* destroy() calls on one instance that the model tells apart
MaxDestroyCalls == 2

\* longest index list of an enumerated sparse tensor
MaxEntries == 2

\* the streams of Math.random() results that the model tells apart are
\* numbered 0..MaxRandomStream
MaxRandomStream == 2
MaxPointerEvents == 3

\* pointers (the mouse, touches) that can drag at the same time
MaxPointers == 2

\* inference requests outstanding at once
MaxRequests == 2

\* updateData calls on one graph view
MaxUpdates == 2

\* flow datasets have 0..MaxFlowTokens tokens or straddle the app's
\* connection limit; maxTokens is 1..MaxFlowCap or a default
MaxFlowTokens == 3
MaxFlowCap == 2

\* transitions with an 'end' listener that are outstanding at once
MaxPendingEnds == 2

\* largest side of a matrix handed to downsampleMatrix directly
MaxSide == 6

\* largest target size handed to downsampleMatrix directly
MaxTarget == 4

-----------------------------------------------------------------------------
(* Program constants                                                       *)

\* app.js:530  data.tokens.length > 150
CanvasTokenLimit == 150

\* app.js:558  maxLinks: state.useCanvas ? 300 : 500
CanvasMaxLinks == 300

SvgMaxLinks == 500

\* network-vis-canvas.js:18  linkThreshold: options.linkThreshold || 0.1
LinkThreshold == 100

\* part_001:190  const maxSize = 100
HeatmapMaxSize == 100

\* layer-flow.js:74  const numLayers = 6
NumLayers == 6

\* layer-flow.js:13-14  margin.top and layerSpacing when the caller gives none
MarginTop == 60

LayerSpacing == 100

\* layer-flow.js:16  maxTokens when the caller gives none
DefaultMaxTokens == 40

\* app.js:633-634  maxTokens of the flow view, and the token count up to
\* which the app asks for connections
AppMaxTokens == 50

AppConnectionLimit == 30

-----------------------------------------------------------------------------
(* Generic helpers                                                         *)

Min(a, b) == IF a < b THEN a ELSE b

Max(a, b) == IF a > b THEN a ELSE b

\* Math.ceil(a / b) for a >= 0, b > 0
CeilDiv(a, b) == (a + b - 1) \div b

RECURSIVE Concat(_)
\* the concatenation of a sequence of sequences
Concat(ss) == IF ss = <<>> THEN <<>> ELSE Head(ss) \o Concat(Tail(ss))

RECURSIVE SetToAscSeq(_)
\* the elements of a finite set of integers in ascending order
SetToAscSeq(S) ==
    IF S = {} THEN <<>>
    ELSE LET m == CHOOSE x \in S : \A y \in S : x <= y
         IN <<m>> \o SetToAscSeq(S \ {m})

Reverse(s) == [k \in 1..Len(s) |-> s[Len(s) + 1 - k]]

SeqRange(s) == {s[k] : k \in 1..Len(s)}

\* Array.prototype.sort((a, b) => a - b) on an array of numbers: equal
\* numbers are indistinguishable, so the result is the ascending run of
\* each distinct value
SortAscending(s) ==
    LET distinct == SetToAscSeq(SeqRange(s))
    IN Concat([k \in 1..Len(distinct) |->
                 SelectSeq(s, LAMBDA x : x = distinct[k])])


-----------------------------------------------------------------------------
(* Data model: the inference service's response (README, app.js:304-308)    *)
(*                                                                         *)
(* A tensor is what the service sends for one (layer, head):               *)
(*   form = "weights"         {weights: number[][]}, the rows*cols cells   *)
(*                            row-major in `values` (gen = "explicit") or  *)
(*                            given by the rule BandWeight (gen = "band")  *)
(*   form = "sparse_weights"  {sparse_weights: {indices, values, shape}}   *)
(*   form = "none"            an object with neither field                 *)
(*   form = "absent"          no object at all (undefined)                 *)

Tensor(form, shape, indices, values, gen) ==
    [form |-> form, shape |-> shape, indices |-> indices, values |-> values,
     gen |-> gen]

DenseTensor(rows, cols, cells) ==
    Tensor("weights", <<rows, cols>>, <<>>, cells, "explicit")

SparseTensor(rows, cols, indices, values) ==
    Tensor("sparse_weights", <<rows, cols>>, indices, values, "explicit")

BandTensor(side) == Tensor("weights", <<side, side>>, <<>>, <<>>, "band")

NeitherTensor == Tensor("none", <<0, 0>>, <<>>, <<>>, "explicit")

AbsentTensor == Tensor("absent", <<0, 0>>, <<>>, <<>>, "explicit")

\* a banded attention pattern: every token attends to the 8 tokens that
\* follow it (cyclically) with weights 0.111 .. 0.118 and to all others,
\* itself included, with weight 0.002
BandWeight(side, i, j) ==
    LET k == (j - i) % side
    IN IF k \in 1..8 THEN 110 + k ELSE 2

\* tensor.weights as a JavaScript array of rows
Weights(t) ==
    [i \in 0..(t.shape[1] - 1) |->
        [j \in 0..(t.shape[2] - 1) |->
            IF t.gen = "band" THEN BandWeight(t.shape[1], i, j)
            ELSE t.values[i * t.shape[2] + j + 1]]]

\* array.length of a model array
Length(a) == Cardinality(DOMAIN a)

\* one transformer layer of the response: {average: Tensor, heads: {head_j: Tensor}}
Layer(average, heads) == [average |-> average, heads |-> heads]

\* the `data` object: tokens (their count; token k is position k),
\* attention.layers (absent when hasAttention is FALSE) and embeddings
Dataset(tokens, hasAttention, layers, embeddings) ==
    [tokens |-> tokens, hasAttention |-> hasAttention, layers |-> layers,
     embeddings |-> embeddings]

\* data.attention.layers.layer_0 && layer_0.average, or an absent tensor
FirstLayerAverage(data) ==
    IF data.hasAttention /\ Len(data.layers) >= 1
    THEN data.layers[1].average
    ELSE AbsentTensor

-----------------------------------------------------------------------------
(* Graph view, edge selection                                              *)

\* an element of this.links; strength is the force the simulation gives it
Link(source, target, value, strength) ==
    [source |-> source, target |-> target, value |-> value,
     strength |-> strength]

\* network-vis.js:152  Math.min(1, Math.max(0, weight * 5))
normalizeWeight(weight) == Min(1000, Max(0, weight * 5))

\* network-vis-canvas.js:161  .strength(d => Math.min(1, d.value * 2))
NVC_linkStrength(value) == Min(1000, value * 2)

\* weights.flat(): the rows of a matrix one after the other
Flat(m) ==
    Concat([r \in 1..Length(m) |->
              [c \in 1..Length(m[r - 1]) |-> m[r - 1][c - 1]]])

\* network-vis.js:143  the element at floor(0.75 * length) of the ascending
\* sort of the flattened values; `|| 0` when there is none
calculateThreshold(values) ==
    LET sorted == SortAscending(values)
        percentileIndex == (Len(sorted) * 3) \div 4
    IN IF percentileIndex + 1 <= Len(sorted) THEN sorted[percentileIndex + 1]
       ELSE 0

\* the cells (i, j) of a matrix in loop order: i outer, j inner
Cells(m) ==
    Concat([r \in 1..Length(m) |->
              [c \in 1..Length(m[r - 1]) |-> <<r - 1, c - 1>>]])

\* network-vis.js:101  every off-diagonal cell above the threshold, in loop
\* order; neither the node count nor options.maxLinks is consulted
NV_processFullAttention(weights) ==
    LET threshold == calculateThreshold(Flat(weights))
        kept == SelectSeq(Cells(weights),
                    LAMBDA c : c[1] # c[2] /\ weights[c[1]][c[2]] > threshold)
    IN [k \in 1..Len(kept) |->
          Link(kept[k][1], kept[k][2], weights[kept[k][1]][kept[k][2]],
               normalizeWeight(weights[kept[k][1]][kept[k][2]]))]

\* the positions idx (1-based) that indices.forEach visits, in order
SparsePositions(indices) == [k \in 1..Len(indices) |-> k]

\* network-vis.js:118  the listed entries above the threshold of the listed
\* values whose row and column are distinct existing nodes
NV_processSparseAttention(sparseData, nodeCount) ==
    LET cols == sparseData.shape[2]
        threshold == calculateThreshold(sparseData.values)
        Row(k) == sparseData.indices[k] \div cols
        Col(k) == sparseData.indices[k] % cols
        kept == SelectSeq(SparsePositions(sparseData.indices),
                    LAMBDA k : /\ sparseData.values[k] > threshold
                               /\ cols > 0   \* else i, j are Infinity or NaN
                               /\ Row(k) # Col(k)
                               /\ Row(k) < nodeCount
                               /\ Col(k) < nodeCount)
    IN [k \in 1..Len(kept) |->
          Link(Row(kept[k]), Col(kept[k]), sparseData.values[kept[k]],
               normalizeWeight(sparseData.values[kept[k]]))]

\* network-vis.js:72  NetworkVisualization.processData: this.links
NV_processData(data) ==
    LET average == FirstLayerAverage(data)
    IN CASE average.form = "weights" -> NV_processFullAttention(Weights(average))
         [] average.form = "sparse_weights" ->
                NV_processSparseAttention(average, data.tokens)
         [] OTHER -> <<>>

\* Array.prototype.sort((a, b) => b.value - a.value): stable, so links of
\* equal value keep their order
SortByValueDescending(links) ==
    LET distinct == Reverse(SetToAscSeq({links[k].value : k \in 1..Len(links)}))
    IN Concat([k \in 1..Len(distinct) |->
                 SelectSeq(links, LAMBDA l : l.value = distinct[k])])

\* Array.prototype.slice(0, n)
Slice(s, n) == SubSeq(s, 1, Min(Len(s), Max(n, 0)))

\* network-vis-canvas.js:93  dense branch: the cells inside the node range
\* above options.linkThreshold
NVC_allLinks(weights, nodeCount) ==
    LET kept == SelectSeq(Cells(weights),
                    LAMBDA c : /\ c[1] < nodeCount
                               /\ c[2] < nodeCount
                               /\ c[1] # c[2]
                               /\ weights[c[1]][c[2]] > LinkThreshold)
    IN [k \in 1..Len(kept) |->
          Link(kept[k][1], kept[k][2], weights[kept[k][1]][kept[k][2]],
               NVC_linkStrength(weights[kept[k][1]][kept[k][2]]))]

\* network-vis-canvas.js:110  sort by weight and take the top maxLinks
NVC_processDense(weights, nodeCount, maxLinks) ==
    Slice(SortByValueDescending(NVC_allLinks(weights, nodeCount)), maxLinks)

\* network-vis-canvas.js:114  sparse branch: the listed entries are taken in
\* list order while linkCount < maxLinks
NVC_processSparse(sparseData, nodeCount, maxLinks) ==
    LET cols == sparseData.shape[2]
        Row(k) == sparseData.indices[k] \div cols
        Col(k) == sparseData.indices[k] % cols
        kept == SelectSeq(SparsePositions(sparseData.indices),
                    LAMBDA k : /\ sparseData.values[k] > LinkThreshold
                               /\ cols > 0   \* else i, j are Infinity or NaN
                               /\ Row(k) # Col(k)
                               /\ Row(k) < nodeCount
                               /\ Col(k) < nodeCount)
        taken == Slice(kept, maxLinks)
    IN [k \in 1..Len(taken) |->
          Link(Row(taken[k]), Col(taken[k]), sparseData.values[taken[k]],
               NVC_linkStrength(sparseData.values[taken[k]]))]

\* network-vis-canvas.js:72  NetworkVisualizationCanvas.processData: this.links
NVC_processData(data, maxLinks) ==
    LET average == FirstLayerAverage(data)
    IN CASE average.form = "weights" ->
                NVC_processDense(Weights(average), data.tokens, maxLinks)
         [] average.form = "sparse_weights" ->
                NVC_processSparse(average, data.tokens, maxLinks)
         [] OTHER -> <<>>

-----------------------------------------------------------------------------
(* Heatmap view, matrix resolution                                         *)

\* Array(rows).fill().map(() => Array(cols).fill(0))
ZeroMatrix(rows, cols) == [i \in 0..(rows - 1) |-> [j \in 0..(cols - 1) |-> 0]]

RECURSIVE FillSparse(_, _, _, _, _)
\* part_001:216  indices.forEach from position k on: an entry whose row and
\* column lie inside the shape is written, any other entry is skipped
FillSparse(matrix, indices, values, shape, k) ==
    IF k > Len(indices) THEN matrix
    ELSE LET rows == shape[1]
             cols == shape[2]
             inside == /\ cols > 0      \* else i, j are Infinity or NaN
                       /\ indices[k] \div cols < rows
                       /\ indices[k] % cols < cols
             written == IF inside
                        THEN [matrix EXCEPT ![indices[k] \div cols]
                                                [indices[k] % cols] = values[k]]
                        ELSE matrix
         IN FillSparse(written, indices, values, shape, k + 1)

\* a variant of the reconstruction that never writes the first listed entry;
\* SparseReconstructionExact must tell it from reconstructSparseMatrix
reconstructSparseMatrix_SkipFirst(sparseData) ==
    FillSparse(ZeroMatrix(sparseData.shape[1], sparseData.shape[2]),
               sparseData.indices, sparseData.values, sparseData.shape, 2)

\* a variant of the reconstruction that wraps an index past the last cell
\* around to the first cells instead of skipping it;
\* OutOfRangeEntriesDropped must tell it from reconstructSparseMatrix
reconstructSparseMatrix_Wrapping(sparseData) ==
    LET cells == sparseData.shape[1] * sparseData.shape[2]
    IN FillSparse(ZeroMatrix(sparseData.shape[1], sparseData.shape[2]),
                  [k \in DOMAIN sparseData.indices |->
                      IF cells > 0 THEN sparseData.indices[k] % cells
                      ELSE sparseData.indices[k]],
                  sparseData.values, sparseData.shape, 1)

\* part_001:208  AttentionHeatmap.reconstructSparseMatrix
reconstructSparseMatrix(sparseData) ==
    FillSparse(ZeroMatrix(sparseData.shape[1], sparseData.shape[2]),
               sparseData.indices, sparseData.values, sparseData.shape, 1)

RECURSIVE SumSeq(_)
SumSeq(s) == IF s = <<>> THEN 0 ELSE Head(s) + SumSeq(Tail(s))

\* a variant of downsampleMatrix whose block size is rounded down instead
\* of up; DownsampledSideWithinTarget must tell it from downsampleMatrix
downsampleMatrix_FloorBlock(matrix, targetSize) ==
    LET sourceSize == Length(matrix)
        blockSize == Max(1, sourceSize \div targetSize)
        actualSize == CeilDiv(sourceSize, blockSize)
    IN [i \in 0..(actualSize - 1) |->
          [j \in 0..(actualSize - 1) |-> matrix[i * blockSize][j * blockSize]]]

\* a variant of downsampleMatrix that divides every block sum by the nominal
\* block area blockSize * blockSize; ConstantMatrixDownsamplesToConstant must
\* tell it from downsampleMatrix
downsampleMatrix_NominalArea(matrix, targetSize) ==
    LET sourceSize == Length(matrix)
        blockSize == CeilDiv(sourceSize, targetSize)
        actualSize == CeilDiv(sourceSize, blockSize)
        Block(i, j) ==
            SelectSeq(
                Concat([bi \in 1..blockSize |->
                          [bj \in 1..blockSize |->
                              <<i * blockSize + bi - 1, j * blockSize + bj - 1>>]]),
                LAMBDA c : c[1] < sourceSize /\ c[2] < sourceSize)
        Cell(i, j) ==
            LET block == Block(i, j)
                sum == SumSeq([k \in 1..Len(block) |->
                                  matrix[block[k][1]][block[k][2]]])
            IN sum \div (blockSize * blockSize)
    IN [i \in 0..(actualSize - 1) |-> [j \in 0..(actualSize - 1) |-> Cell(i, j)]]

\* part_001:227  AttentionHeatmap.downsampleMatrix: the mean of the
\* in-bounds source cells of each block (a fixed-point quotient)
downsampleMatrix(matrix, targetSize) ==
    LET sourceSize == Length(matrix)
        blockSize == CeilDiv(sourceSize, targetSize)
        actualSize == CeilDiv(sourceSize, blockSize)
        Block(i, j) ==
            SelectSeq(
                Concat([bi \in 1..blockSize |->
                          [bj \in 1..blockSize |->
                              <<i * blockSize + bi - 1, j * blockSize + bj - 1>>]]),
                LAMBDA c : c[1] < sourceSize /\ c[2] < sourceSize)
        Cell(i, j) ==
            LET block == Block(i, j)
                sum == SumSeq([k \in 1..Len(block) |->
                                  matrix[block[k][1]][block[k][2]]])
                count == Len(block)
            IN IF count > 0 THEN sum \div count ELSE 0
    IN [i \in 0..(actualSize - 1) |-> [j \in 0..(actualSize - 1) |-> Cell(i, j)]]

\* part_001:164-187  the tensor that the selection (layer, head) names;
\* head 0 is 'average', head h >= 1 is the key head_(h-1)
SelectedTensor(data, currentLayer, currentHead) ==
    LET layerData == data.layers[currentLayer + 1]
    IN IF currentHead = 0 THEN layerData.average
       ELSE IF currentHead <= Len(layerData.heads)
            THEN layerData.heads[currentHead]
            ELSE AbsentTensor

\* part_001:157  AttentionHeatmap.processData on the instance `self`
AH_processData(self) ==
    LET data == self.data
        tensor == IF data.hasAttention
                  THEN SelectedTensor(data, self.currentLayer, self.currentHead)
                  ELSE AbsentTensor
        \* lines 164-187: this.attentionMatrix is assigned only when the
        \* tensor has one of the two forms
        extracted ==
            CASE tensor.form = "weights" ->
                    [self EXCEPT !.attentionMatrix = Weights(tensor),
                                 !.hasMatrix = TRUE]
              [] tensor.form = "sparse_weights" ->
                    [self EXCEPT !.attentionMatrix = reconstructSparseMatrix(tensor),
                                 !.hasMatrix = TRUE]
              [] OTHER -> self
        \* lines 189-198
        sized ==
            IF ~data.hasAttention THEN extracted
            ELSE IF extracted.hasMatrix
                    /\ Length(extracted.attentionMatrix) > HeatmapMaxSize
                 THEN [extracted EXCEPT
                         !.attentionMatrix =
                             downsampleMatrix(extracted.attentionMatrix, HeatmapMaxSize),
                         !.isDownsampled = TRUE,
                         !.originalSize = data.tokens]
                 ELSE [extracted EXCEPT !.isDownsampled = FALSE]
    IN \* lines 201-205
       IF sized.hasMatrix THEN sized
       ELSE [sized EXCEPT !.attentionMatrix = ZeroMatrix(data.tokens, data.tokens),
                          !.hasMatrix = TRUE]

\* a token label: the text of token k, or the marker `[first-last]` of a
\* block of tokens
TokenLabel(k) == [kind |-> "token", first |-> k, last |-> k]

RangeLabel(first, last) == [kind |-> "range", first |-> first, last |-> last]

\* part_001:258-296  AttentionHeatmap.render: the cells take fromToken and
\* toToken from the aggregated labels when the matrix is downsampled, and
\* from data.tokens otherwise
AH_render(self) ==
    LET tokens == self.data.tokens
        size == Length(self.attentionMatrix)
        blockSize == CeilDiv(self.originalSize, size)
        pushed == Cardinality({i \in 0..(size - 1) : i * blockSize < tokens})
        downsampledTokens ==
            [i \in 0..(pushed - 1) |->
                LET start == i * blockSize
                    end == Min(start + blockSize, tokens)
                IN IF blockSize > 1 THEN RangeLabel(start, end - 1)
                   ELSE TokenLabel(start)]
    IN [self EXCEPT
          !.cellTokens = IF self.isDownsampled THEN downsampledTokens
                         ELSE [k \in 0..(tokens - 1) |-> TokenLabel(k)]]

\* part_001:423-445  AttentionHeatmap.update: the cells are bound to new
\* data whose fromToken and toToken come from data.tokens
AH_update(self) ==
    [self EXCEPT
       !.cellTokens = [k \in 0..(self.data.tokens - 1) |-> TokenLabel(k)]]

-----------------------------------------------------------------------------
(* Visualization objects                                                   *)
(*                                                                         *)
(* One record type holds the fields of the five classes; a field a class   *)
(* does not have keeps its initial value.  The world is the part of the    *)
(* page the classes and app.js act on.                                     *)

NetworkSvg == "NetworkVisualization"

NetworkCanvas == "NetworkVisualizationCanvas"

Heatmap == "AttentionHeatmap"

Embedding == "EmbeddingSpaceVisualization"

LayerFlow == "LayerFlowVisualization"

Classes == {NetworkSvg, NetworkCanvas, Heatmap, Embedding, LayerFlow}

\* a d3 zoom transform {k, x, y}: screen = k * logical + (x, y); k is held
\* in tenths (10 = scale 1.0) so that the scales below 1 are integers
Transform(k, x, y) == [k |-> k, x |-> x, y |-> y]

\* d3.zoomIdentity
zoomIdentity == Transform(10, 0, 0)

\* null in a field that holds a node: nodes are named by their ids 0, 1, ...
NoNode == -1

\* the fields after the constructor's assignments, before this.init();
\* `live` counts the constructed, not yet destroyed objects at that moment
NewInstance(cls, data, options, live) ==
    [cls |-> cls, data |-> data,
     maxLinks |-> options.maxLinks,     \* this.options.maxLinks
     dimensions |-> options.dimensions, \* this.options.dimensions
     maxTokens |-> options.maxTokens,   \* this.options.maxTokens
     showConnections |-> options.showConnections,
     tokens |-> <<>>,             \* this.tokens of the flow view: the input
                                  \* positions of the tokens kept
     layers |-> <<>>,             \* this.layers of the flow view
     pendingEnds |-> <<>>,        \* the transitions of animateNextLayer whose
                                  \* 'end' listener has not run: the layer
                                  \* group, and whether a newer transition
                                  \* on that group is waiting to start
     destroyCalls |-> 0,          \* calls of destroy() so far
     liveAtConstruction |-> live,
     dom |-> FALSE,               \* the container holds elements of this object
     simulation |-> "null",       \* d3 force simulation: null, running, stopped
     replacedSimulations |-> 0,   \* simulations that this.simulation no longer
                                  \* names and that were not stopped
     rendered |-> <<>>,           \* the 'links' and 'nodes' groups under this.g,
                                  \* each with the data its elements are bound to
     nodes |-> 0,                 \* this.nodes.length; node ids are 0..nodes-1
     links |-> <<>>,
     currentLayer |-> 0, currentHead |-> 0,
     attentionMatrix |-> <<>>, hasMatrix |-> FALSE, isDownsampled |-> FALSE,
     originalSize |-> 0,          \* the token count, set when downsampling
     cellTokens |-> <<>>,         \* the tokens array from which the data bound
                                  \* to the cells took fromToken and toToken
     reduce |-> "none",           \* /api/reduce_embeddings: none, pending, settled
     coordinates |-> "null",      \* origin of reducedCoordinates: null,
                                  \* projected (by the service), random
     reducedCoordinates |-> <<>>, \* one vector per token, in thousandths
     transform |-> zoomIdentity,  \* this.transform; the zoom group's transform
     hoveredNode |-> NoNode,      \* this.hoveredNode
     selectedNode |-> NoNode,     \* this.selectedNode
     highlighted |-> NoNode,      \* the node whose neighbourhood is at full
                                  \* opacity while the rest is dimmed
     infoShown |-> FALSE,         \* the tooltip / node info box is visible
     dispatched |-> <<>>,         \* the CustomEvents dispatched on the
                                  \* container, in order
     hitClicks |-> <<>>,          \* the entities hit by the clicks so far
     pointerEvents |-> 0,         \* hover and click events handled so far
     pins |-> {},                 \* the nodes whose fx, fy are not null, with
                                  \* the place they are pinned to
     drags |-> {},                \* the drag gestures in progress: the
                                  \* pointer and its subject node
     fallbackMark |-> FALSE,      \* a property recording that the coordinates
                                  \* are synthesized: no statement assigns one
     scene |-> FALSE,
     renderer |-> "null",         \* WebGL renderer: null, live, disposed
     frameLoop |-> FALSE,         \* a requestAnimationFrame callback is scheduled
     destroyedPending |-> FALSE,  \* destroy() ran while the request was pending
     ranAfterDestroy |-> FALSE,   \* a callback of the object ran after destroy()
     isAnimating |-> FALSE]

\* random names the stream of results that Math.random() returns to the
\* handler that is running
World(st, insts, listeners) ==
    [state |-> st, instances |-> insts, windowResize |-> listeners, random |-> 0]

\* the options object of a constructor call, the options the model follows
Options(maxLinks, dimensions) ==
    [maxLinks |-> maxLinks, dimensions |-> dimensions,
     maxTokens |-> DefaultMaxTokens, showConnections |-> TRUE]

\* the options object {maxTokens, showConnections} of a flow view
FlowOptions(maxTokens, showConnections) ==
    [Options(0, 3) EXCEPT !.maxTokens = maxTokens,
                          !.showConnections = showConnections]

\* a variant of LF_layerNodes that keeps the last tokens of the input
LF_layerNodes_LastTokens(tokens, inputCount, layerIdx) ==
    [tokenIdx \in 0..(Len(tokens) - 1) |->
        [layer |-> layerIdx, tokenIndex |-> tokenIdx,
         token |-> inputCount - Len(tokens) + tokenIdx,
         y |-> MarginTop + layerIdx * LayerSpacing]]

\* layer-flow.js:77-97  the nodes of one layer: node tokenIdx carries
\* this.tokens[tokenIdx]; x, radius and color are not followed
LF_layerNodes(tokens, inputCount, layerIdx) ==
    [tokenIdx \in 0..(Len(tokens) - 1) |->
        [layer |-> layerIdx, tokenIndex |-> tokenIdx,
         token |-> tokens[tokenIdx + 1],
         y |-> MarginTop + layerIdx * LayerSpacing]]

\* a link of the flow view; a node is named by <<layer, tokenIndex>>
FlowLink(layerIdx, sourceIdx, targetIdx, strength, type) ==
    [source |-> <<layerIdx, sourceIdx>>, target |-> <<layerIdx + 1, targetIdx>>,
     strength |-> strength, type |-> type]

\* a variant of LF_nodeLinks that gives every node both neighbours
LF_nodeLinks_NoEdgeCheck(layerIdx, sourceIdx, targetCount, showConnections) ==
    <<FlowLink(layerIdx, sourceIdx, sourceIdx, 1000, "primary")>>
    \o (IF showConnections
        THEN <<FlowLink(layerIdx, sourceIdx, sourceIdx - 1, 300, "attention"),
               FlowLink(layerIdx, sourceIdx, sourceIdx + 1, 300, "attention")>>
        ELSE <<>>)

\* layer-flow.js:131-158  the links pushed for one source node
LF_nodeLinks(layerIdx, sourceIdx, targetCount, showConnections) ==
    <<FlowLink(layerIdx, sourceIdx, sourceIdx, 1000, "primary")>>
    \o (IF showConnections /\ sourceIdx > 0
        THEN <<FlowLink(layerIdx, sourceIdx, sourceIdx - 1, 300, "attention")>>
        ELSE <<>>)
    \o (IF showConnections /\ sourceIdx < targetCount - 1
        THEN <<FlowLink(layerIdx, sourceIdx, sourceIdx + 1, 300, "attention")>>
        ELSE <<>>)

\* layer-flow.js:123  createConnections over this.layers
LF_createConnections(layers, showConnections) ==
    Concat([i \in 1..(Len(layers) - 1) |->
              Concat([k \in 1..Length(layers[i].nodes) |->
                        LF_nodeLinks(i - 1, k - 1, Length(layers[i + 1].nodes),
                                     showConnections)])])

\* layer-flow.js:64  processData: the first min(length, maxTokens) tokens,
\* six layers of nodes, then the connections
LF_processData(self) ==
    LET kept == Min(self.data.tokens, self.maxTokens)
        tokens == [k \in 1..kept |-> k - 1]
        layers == [i \in 1..NumLayers |->
                     [index |-> i - 1,
                      nodes |-> LF_layerNodes(tokens, self.data.tokens, i - 1)]]
    IN [self EXCEPT !.tokens = tokens,
                    !.layers = layers,
                    !.links = LF_createConnections(layers, self.showConnections)]

RandomStreams == 0..MaxRandomStream

\* the n-th result (n = 1, 2, ...) of Math.random() in a stream, in
\* thousandths of [0, 1): stream 0 is all 0, stream 1 all 0.999, the others
\* step through the interval
MathRandom(stream, n) ==
    CASE stream = 0 -> 0
      [] stream = 1 -> 999
      [] OTHER -> (n * 333 * (stream - 1)) % 1000

\* a variant of generateRandomCoordinates that always draws three
\* components; FallbackCoordinatesWellFormed must tell it from
\* generateRandomCoordinates
generateRandomCoordinates_AlwaysThree(tokens, dimensions, stream) ==
    [k \in 1..tokens |->
        [d \in 1..3 |-> (MathRandom(stream, (k - 1) * 3 + d) - 500) * 2]]

\* embedding-space.js:143  generateRandomCoordinates: per token, 3
\* components if options.dimensions === 3 and 2 otherwise, each
\* (Math.random() - 0.5) * 2
generateRandomCoordinates(tokens, dimensions, stream) ==
    LET components == IF dimensions = 3 THEN 3 ELSE 2
    IN [k \in 1..tokens |->
          [d \in 1..components |->
              (MathRandom(stream, (k - 1) * components + d) - 500) * 2]]

\* result.data.coordinates of a successful reduction: one vector of
\* n_components components per token (the projection itself is the
\* service's; every component is 0 here)
ServiceCoordinates(tokens, dimensions) ==
    [k \in 1..tokens |-> [d \in 1..dimensions |-> 0]]

\* the listener object that setupInteractions registers, and the distinct
\* arrow function that destroy() creates (embedding-space.js:353, 495)
Listener(id, createdBy) == [inst |-> id, fn |-> createdBy]

LiveCount(insts) ==
    Cardinality({i \in 1..Len(insts) : insts[i].destroyCalls = 0})

\* embedding-space.js:61-77  init() after `await this.processEmbeddings()`:
\* setupScene, createVisualization, setupInteractions, addControlsUI,
\* hideLoading, animate
ES_finishInit(W, id) ==
    [W EXCEPT
       !.instances[id].scene = TRUE,
       !.instances[id].renderer = "live",
       !.instances[id].dom = TRUE,
       !.instances[id].frameLoop = TRUE,
       !.windowResize = W.windowResize \cup {Listener(id, "setupInteractions")}]

\* embedding-space.js:44-59, 105-141  init() up to the first suspension: with
\* embeddings the reduction request is sent and init waits for it; without,
\* random coordinates are drawn and init resumes as soon as the running
\* handler returns
ES_init(W, id) ==
    LET shown == [W EXCEPT !.instances[id].dom = TRUE]
        self == W.instances[id]
    IN IF self.data.embeddings
       THEN [shown EXCEPT !.instances[id].reduce = "pending"]
       ELSE ES_finishInit(
                [shown EXCEPT
                   !.instances[id].coordinates = "random",
                   !.instances[id].reducedCoordinates =
                       generateRandomCoordinates(self.data.tokens, self.dimensions,
                                                 W.random)], id)


\* network-vis.js:171  render on the instance `self`: a new simulation is
\* assigned to this.simulation, and a 'links' and a 'nodes' group are
\* appended to this.g and bound to this.links and this.nodes
NV_render(self) ==
    [self EXCEPT
       !.simulation = "running",
       !.replacedSimulations =
           IF self.simulation = "running" THEN self.replacedSimulations + 1
           ELSE self.replacedSimulations,
       !.rendered = Append(self.rendered,
                           [nodes |-> self.nodes, links |-> self.links])]

\* the constructor of class cls run by `new`: the object gets the next id
Construct(W, cls, data, options) ==
    LET id == Len(W.instances) + 1
        maxLinks == options.maxLinks
        base == NewInstance(cls, data, options, LiveCount(W.instances))
        added == [W EXCEPT !.instances = Append(W.instances, base)]
    IN CASE cls = NetworkSvg ->
              \* network-vis.js:32  init: processData, render
              [added EXCEPT !.instances[id] =
                                NV_render([base EXCEPT
                                             !.dom = TRUE,
                                             !.nodes = data.tokens,
                                             !.links = NV_processData(data)])]
         [] cls = NetworkCanvas ->
              \* network-vis-canvas.js:34  init: processData, startSimulation
              [added EXCEPT !.instances[id].dom = TRUE,
                            !.instances[id].nodes = data.tokens,
                            !.instances[id].links = NVC_processData(data, maxLinks),
                            !.instances[id].simulation = "running"]
         [] cls = Heatmap ->
              \* part_001:33  init: addControls, processData, render
              [added EXCEPT !.instances[id] =
                                AH_render(AH_processData([base EXCEPT !.dom = TRUE]))]
         [] cls = Embedding -> ES_init(added, id)
         [] cls = LayerFlow ->
              \* layer-flow.js:44  init: processData, then the elements
              [added EXCEPT !.instances[id] =
                                LF_processData([base EXCEPT !.dom = TRUE])]

\* network-vis.js:312  updateData(newData) on the instance `self`
NV_updateData(self, newData) ==
    NV_render([self EXCEPT !.data = newData,
                           !.nodes = newData.tokens,
                           !.links = NV_processData(newData)])

\* window.removeEventListener('resize', fn): only the very function object
\* that was registered is removed
RemoveListener(listeners, fn) == listeners \ {fn}

\* the destroy() method of the object id
Destroy(W, id) ==
    LET self == W.instances[id]
        counted == [self EXCEPT
                      !.destroyCalls = Min(self.destroyCalls + 1, MaxDestroyCalls)]
    IN CASE self.cls \in {NetworkSvg, NetworkCanvas} ->
              \* network-vis.js:328, network-vis-canvas.js:366
              [W EXCEPT !.instances[id] =
                  [counted EXCEPT
                     !.simulation = IF self.simulation = "null" THEN "null"
                                    ELSE "stopped",
                     !.rendered = <<>>,
                     !.dom = FALSE]]
         [] self.cls = Heatmap ->
              \* part_001:494
              [W EXCEPT !.instances[id] = [counted EXCEPT !.dom = FALSE]]
         [] self.cls = Embedding ->
              \* embedding-space.js:473  the renderer is disposed, the scene's
              \* resources are released, a new arrow function is handed to
              \* removeEventListener and the container is cleared; the
              \* animation-frame request is not cancelled
              [W EXCEPT
                 !.instances[id] =
                     [counted EXCEPT
                        !.renderer = IF self.renderer = "null" THEN "null"
                                     ELSE "disposed",
                        !.destroyedPending = self.destroyedPending
                                             \/ self.reduce = "pending",
                        !.dom = FALSE],
                 !.windowResize =
                     RemoveListener(W.windowResize, Listener(id, "destroy"))]
         [] self.cls = LayerFlow ->
              \* layer-flow.js:507
              [W EXCEPT !.instances[id] =
                  [counted EXCEPT !.isAnimating = FALSE, !.dom = FALSE]]

-----------------------------------------------------------------------------
(* The hosting application, app.js                                         *)

VisualizationModes == {"network", "attention", "embedding", "flow"}

\* app.js:6  the global state; processingData is <<>> for null and <<data>>
\* otherwise, currentVisualization is 0 for null and an object id otherwise
InitialState ==
    [processingData |-> <<>>,
     currentVisualization |-> 0,
     visualizationMode |-> "network",
     performanceMode |-> "auto",
     useCanvas |-> FALSE,
     loading |-> FALSE,           \* #loadingOverlay has class 'active'
     errorMessage |-> "none",     \* the text of the error modal, once shown
     requests |-> 0,              \* fetches of processText not yet settled
     lastOutcome |-> [kind |-> "none", flip |-> FALSE]]
                                  \* how the processText call that ended last
                                  \* ended; flip alternates at every end

\* a variant of the backend choice whose auto boundary includes the limit
\* itself; RenderStrategyPolicy must tell it from UseCanvas
UseCanvas_InclusiveBoundary(performanceMode, tokenCount) ==
    CASE performanceMode = "auto" -> tokenCount >= CanvasTokenLimit
      [] performanceMode = "performance" -> TRUE
      [] OTHER -> FALSE

\* app.js:528-535  the render backend for a performance mode and a token count
UseCanvas(performanceMode, tokenCount) ==
    CASE performanceMode = "auto" -> tokenCount > CanvasTokenLimit
      [] performanceMode = "performance" -> TRUE
      [] OTHER -> FALSE

\* app.js:544-647  the class that `new` is applied to
VisualizationClass(visualizationMode, useCanvas) ==
    CASE visualizationMode = "network" ->
            IF useCanvas THEN NetworkCanvas ELSE NetworkSvg
      [] visualizationMode = "attention" -> Heatmap
      [] visualizationMode = "embedding" -> Embedding
      [] visualizationMode = "flow" -> LayerFlow

\* app.js:558  maxLinks: state.useCanvas ? 300 : 500 (graph view only)
MaxLinksOption(visualizationMode, useCanvas) ==
    IF visualizationMode = "network"
    THEN IF useCanvas THEN CanvasMaxLinks ELSE SvgMaxLinks
    ELSE 0

\* app.js:551-617  the options object of each constructor call; the
\* embedding view is asked for 3 dimensions
AppOptions(visualizationMode, useCanvas) ==
    Options(MaxLinksOption(visualizationMode, useCanvas), 3)

\* app.js:626-637  the options of the flow view
AppFlowOptions(data) ==
    FlowOptions(AppMaxTokens, data.tokens <= AppConnectionLimit)

\* a variant of initializeVisualization that constructs the next object
\* while the previous one is still live and destroys that one afterwards;
\* OneLiveVisualization must tell it from initializeVisualization
initializeVisualization_ConstructFirst(W, data) ==
    LET current == W.state.currentVisualization
        useCanvas == UseCanvas(W.state.performanceMode, data.tokens)
        flagged == [W EXCEPT !.state.useCanvas = useCanvas]
        built == Construct(flagged,
                           VisualizationClass(W.state.visualizationMode, useCanvas),
                           data,
                           IF W.state.visualizationMode = "flow"
                           THEN AppFlowOptions(data)
                           ELSE AppOptions(W.state.visualizationMode, useCanvas))
        cleared == IF current # 0 THEN Destroy(built, current) ELSE built
    IN [cleared EXCEPT !.state.currentVisualization = Len(built.instances)]

\* app.js:487  initializeVisualization(data), data not null
initializeVisualization(W, data) ==
    LET current == W.state.currentVisualization
        \* lines 491-497
        cleared == IF current # 0
                   THEN [Destroy(W, current) EXCEPT !.state.currentVisualization = 0]
                   ELSE W
        \* lines 528-535
        useCanvas == UseCanvas(W.state.performanceMode, data.tokens)
        flagged == [cleared EXCEPT !.state.useCanvas = useCanvas]
        \* lines 543-647
        built == Construct(flagged,
                           VisualizationClass(W.state.visualizationMode, useCanvas),
                           data,
                           IF W.state.visualizationMode = "flow"
                           THEN AppFlowOptions(data)
                           ELSE AppOptions(W.state.visualizationMode, useCanvas))
    IN [built EXCEPT !.state.currentVisualization = Len(built.instances)]

\* app.js:177-193  auto -> quality -> performance -> auto
NextPerformanceMode(performanceMode) ==
    CASE performanceMode = "auto" -> "quality"
      [] performanceMode = "quality" -> "performance"
      [] OTHER -> "auto"

\* the step to the world V
Becomes(V) ==
    /\ state' = V.state
    /\ instances' = V.instances
    /\ windowResize' = V.windowResize
    /\ UNCHANGED call

\* a timer, frame or listener callback of the object id runs; the record
\* keeps whether that happened after destroy()
RunCallback(W, id) ==
    [W EXCEPT !.instances[id].ranAfterDestroy =
                  @ \/ W.instances[id].destroyCalls > 0]

Now == World(state, instances, windowResize)

\* the world in which Math.random() follows the given stream
WithRandom(W, stream) == [W EXCEPT !.random = stream]

\* the inference responses of the hosting application's runs: 150 and 151
\* tokens without attention, and 64 tokens with the banded pattern in two
\* layers of one head each
AppDatasets ==
    {Dataset(CanvasTokenLimit, FALSE, <<>>, TRUE),
     Dataset(CanvasTokenLimit + 1, FALSE, <<>>, TRUE),
     Dataset(64, TRUE,
             <<Layer(BandTensor(64), <<BandTensor(64)>>),
               Layer(BandTensor(64), <<NeitherTensor>>)>>,
             FALSE)}

\* app.js:264-323  processText, the request answered with success:
\* the processText call has ended in the given way
Ended(W, kind) ==
    [W EXCEPT !.state.lastOutcome = [kind |-> kind, flip |-> ~W.state.lastOutcome.flip]]

\* app.js:950  showError(message)
showError(W, message) == [W EXCEPT !.state.errorMessage = message]

\* app.js:264-296  processText up to its first await: blank text is
\* reported and nothing is sent; otherwise the overlay is switched on and
\* the request goes out
processTextCalled(W, blank) ==
    IF blank
    THEN Ended(showError(W, "Please enter some text to process"), "blank")
    ELSE [W EXCEPT !.state.loading = TRUE,
                   !.state.requests = W.state.requests + 1]

\* the ways a request of processText fails: response.ok false, success
\* false, fetch rejecting, and the abort after 30 seconds
FailureOutcomes == {"httpError", "successFalse", "networkError", "timeout"}

\* a variant of processTextEnded that stores the data of a response whose
\* success is false
processTextEnded_StoreAnyResult(W, outcome, data) ==
    LET settled == [W EXCEPT !.state.requests = W.state.requests - 1]
        done ==
            CASE outcome = "success" ->
                    initializeVisualization(
                        [settled EXCEPT !.state.processingData = <<data>>], data)
              [] outcome = "successFalse" ->
                    showError([settled EXCEPT !.state.processingData = <<data>>],
                              "Processing failed")
              [] outcome = "timeout" ->
                    showError(settled, "Request timed out. The text might be too long. Please try a shorter text.")
              [] OTHER ->
                    showError(settled, "Failed to process text. Please try again.")
    IN Ended([done EXCEPT !.state.loading = FALSE], outcome)

\* app.js:298-322  processText from the settling of its fetch: the data of
\* a successful response is stored and displayed, every failure is
\* reported, and the finally block switches the overlay off
processTextEnded(W, outcome, data) ==
    LET settled == [W EXCEPT !.state.requests = W.state.requests - 1]
        done ==
            CASE outcome = "success" ->
                    initializeVisualization(
                        [settled EXCEPT !.state.processingData = <<data>>], data)
              [] outcome = "successFalse" ->
                    showError(settled, "Processing failed")
              [] outcome = "timeout" ->
                    showError(settled, "Request timed out. The text might be too long. Please try a shorter text.")
              [] OTHER ->
                    showError(settled, "Failed to process text. Please try again.")
    IN Ended([done EXCEPT !.state.loading = FALSE], outcome)

\* a processText call whose request succeeds, from the call to its end
\* state.processingData = result.data; displayResults(result.data)
ProcessTextSuccess(data, stream) ==
    /\ Len(instances) < MaxInstances
    /\ Becomes(initializeVisualization(
                   [WithRandom(Now, stream) EXCEPT
                      !.state.processingData = <<data>>], data))

\* app.js:679  switchVisualizationMode(mode)
switchVisualizationMode(mode, stream) ==
    LET moded == [WithRandom(Now, stream) EXCEPT !.state.visualizationMode = mode]
    IN IF state.processingData # <<>>
       THEN /\ Len(instances) < MaxInstances
            /\ Becomes(initializeVisualization(moded, state.processingData[1]))
       ELSE Becomes(moded)

\* app.js:175-200  the click handler of the performance mode button
PerformanceModeToggle(stream) ==
    LET cycled == [WithRandom(Now, stream) EXCEPT !.state.performanceMode =
                                  NextPerformanceMode(state.performanceMode)]
    IN IF state.processingData # <<>>
       THEN /\ Len(instances) < MaxInstances
            /\ Becomes(initializeVisualization(cycled, state.processingData[1]))
       ELSE Becomes(cycled)

-----------------------------------------------------------------------------
(* Callbacks of the visualization objects                                  *)

\* network-vis.js:229, network-vis-canvas.js:166  the simulation's tick
\* callback, run by the simulation's timer while it has not been stopped
SimulationTick(id) ==
    /\ instances[id].simulation = "running"
    /\ Becomes(RunCallback(Now, id))

\* embedding-space.js:439  animate(): requests the next frame, updates the
\* controls and renders
AnimationFrame(id) ==
    /\ instances[id].frameLoop
    /\ Becomes(RunCallback(Now, id))

\* embedding-space.js:125-135  the reduction request settles: coordinates on
\* success, random coordinates on success = false or on an exception; init()
\* then resumes
ReduceResponse(id, success, stream) ==
    /\ instances[id].reduce = "pending"
    /\ Becomes(ES_finishInit(
                   [Now EXCEPT
                      !.instances[id].reduce = "settled",
                      !.instances[id].coordinates =
                          IF success THEN "projected" ELSE "random",
                      !.instances[id].reducedCoordinates =
                          IF success
                          THEN ServiceCoordinates(instances[id].data.tokens,
                                                  instances[id].dimensions)
                          ELSE generateRandomCoordinates(
                                   instances[id].data.tokens,
                                   instances[id].dimensions, stream)], id))

\* embedding-space.js:353  a registered 'resize' listener runs onWindowResize
WindowResized(listener) ==
    /\ listener \in windowResize
    /\ Becomes(RunCallback(Now, listener.inst))

\* part_001:143  'change' on #layerSelect, an element of the object's
\* controls: the option at selectedIndex was chosen
LayerSelectChange(id, selectedIndex) ==
    /\ instances[id].cls = Heatmap
    /\ instances[id].dom
    /\ instances[id].data.hasAttention
    /\ selectedIndex \in 0..(Len(instances[id].data.layers) - 1)
    /\ selectedIndex # instances[id].currentLayer
    /\ Becomes([Now EXCEPT !.instances[id] =
                   AH_update(AH_processData([instances[id] EXCEPT
                                               !.currentLayer = selectedIndex]))])

\* part_001:149  'change' on #headSelect; the options are 'average' and the
\* heads of the first layer (part_001:125-139)
HeadSelectChange(id, head) ==
    /\ instances[id].cls = Heatmap
    /\ instances[id].dom
    /\ instances[id].data.hasAttention
    /\ head \in 0..Len(instances[id].data.layers[1].heads)
    /\ head # instances[id].currentHead
    /\ Becomes([Now EXCEPT !.instances[id] =
                   AH_update(AH_processData([instances[id] EXCEPT
                                               !.currentHead = head]))])

Callbacks ==
    \/ \E id \in 1..Len(instances) : SimulationTick(id)
    \/ \E id \in 1..Len(instances) : AnimationFrame(id)
    \/ \E id \in 1..Len(instances), success \in BOOLEAN, stream \in RandomStreams :
          ReduceResponse(id, success, stream)
    \/ \E listener \in windowResize : WindowResized(listener)
    \/ \E id \in 1..Len(instances), l \in 0..1 : LayerSelectChange(id, l)
    \/ \E id \in 1..Len(instances), h \in 0..1 : HeadSelectChange(id, h)

-----------------------------------------------------------------------------
(* Specification of the hosting application with its visualizations        *)

\* no method has been called directly
NoCall == [fn |-> "none", args |-> <<>>, result |-> <<>>]

Init ==
    /\ state = InitialState
    /\ instances = <<>>
    /\ windowResize = {}
    /\ call = NoCall

Next ==
    \/ \E data \in AppDatasets, stream \in RandomStreams :
          ProcessTextSuccess(data, stream)
    \/ \E mode \in VisualizationModes, stream \in RandomStreams :
          switchVisualizationMode(mode, stream)
    \/ \E stream \in RandomStreams : PerformanceModeToggle(stream)
    \/ Callbacks

Spec == Init /\ [][Next]_vars

-----------------------------------------------------------------------------
(* Specification of one visualization under any host: the exposed          *)
(* component contract, construct(container, dataset, options) and          *)
(* destroy(), with every small dataset                                     *)

\* the shapes of the enumerated sparse tensors
SparseShapes == {<<2, 2>>, <<1, 2>>, <<2, 1>>, <<1, 0>>}

\* weights of the enumerated tensors: 0.05, 0.2 and 0.3
SmallWeights == {50, 200, 300}

\* every sparse tensor of those shapes with at most MaxEntries entries whose
\* indices run up to one past the last cell
SmallSparseTensors ==
    {SparseTensor(shape[1], shape[2],
                  [k \in DOMAIN entries |-> entries[k][1]],
                  [k \in DOMAIN entries |-> entries[k][2]]) :
        <<shape, entries>> \in
            UNION {{shape} \X
                     UNION {[1..n -> (0..(shape[1] * shape[2] + 1)) \X SmallWeights] :
                              n \in 0..MaxEntries} : shape \in SparseShapes}}

\* every 2 x 2 and 3 x 3 dense tensor with 0.4 on the diagonal
SmallDenseTensors ==
    {DenseTensor(2, 2, <<400, a, b, 400>>) : a, b \in SmallWeights}
    \cup {DenseTensor(3, 3, <<400, c[1], c[2], c[3], 400, c[4], c[5], c[6], 400>>) :
            c \in [1..6 -> SmallWeights]}

AverageTensors ==
    {AbsentTensor, NeitherTensor,
     DenseTensor(2, 2, <<400, 200, 300, 400>>),
     SparseTensor(2, 2, <<1, 3>>, <<300, 200>>)}

HeadTensors ==
    {NeitherTensor,
     DenseTensor(2, 2, <<50, 300, 200, 50>>),
     SparseTensor(2, 2, <<0, 2>>, <<200, 300>>)}

\* two layers; the first has one head, the second one head or none
LayeredDatasets ==
    {Dataset(2, TRUE, <<Layer(a1, <<h1>>), Layer(a2, hs2)>>, FALSE) :
        a1 \in AverageTensors, h1 \in HeadTensors, a2 \in AverageTensors,
        hs2 \in {<<>>} \cup {<<h2>> : h2 \in HeadTensors}}

\* datasets whose 3 x 3 attention matrix has more rows and columns than
\* there are tokens (1 or 2): a dense matrix with a low diagonal and a
\* sparse one with five entries
MismatchedDatasets ==
    {Dataset(n, TRUE, <<Layer(t, <<>>)>>, FALSE) :
        n \in 1..2,
        t \in {DenseTensor(3, 3, <<50, 300, 200, 200, 50, 200, 200, 300, 50>>),
               SparseTensor(3, 3, <<1, 2, 3, 5, 7>>, <<200, 200, 200, 200, 300>>)}}

\* datasets without attention: 0..2 tokens, with or without embeddings
PlainDatasets == {Dataset(n, FALSE, <<>>, e) : n \in 0..2, e \in BOOLEAN}

HostDatasets ==
    PlainDatasets
    \cup {Dataset(t.shape[1], TRUE, <<Layer(t, <<>>)>>, FALSE) :
            t \in SmallSparseTensors \cup SmallDenseTensors}
    \cup LayeredDatasets
    \cup MismatchedDatasets
    \* a 3 x 3 matrix most of whose cells are 0
    \cup {Dataset(3, TRUE,
                  <<Layer(DenseTensor(3, 3, <<0, 300, 0, 200, 0, 200, 0, 0, 0>>),
                          <<>>)>>,
                  FALSE)}

\* new cls(container, data, {maxLinks})
HostConstruct(cls, data, options, stream) ==
    Becomes(Construct(WithRandom(Now, stream), cls, data, options))

\* instance.destroy() by the host, any number of times
HostDestroy(id) ==
    Becomes(Destroy(Now, id))

\* the host constructs one object, of any class, from any small dataset
NextHost ==
    \/ /\ instances = <<>>
       /\ \E cls \in {NetworkSvg, NetworkCanvas}, data \in HostDatasets,
             maxLinks \in 1..MaxCap :
             HostConstruct(cls, data, Options(maxLinks, 3), 0)
    \/ /\ instances = <<>>
       /\ \E cls \in {Heatmap, LayerFlow}, data \in HostDatasets :
             HostConstruct(cls, data, Options(0, 3), 0)
    \/ /\ instances = <<>>
       /\ \E data \in PlainDatasets, dimensions \in 2..3, stream \in RandomStreams :
             HostConstruct(Embedding, data, Options(0, dimensions), stream)
    \/ \E id \in 1..Len(instances) : HostDestroy(id)
    \/ Callbacks

SpecHost == Init /\ [][NextHost]_vars

-----------------------------------------------------------------------------
(* Pointer interaction of the graph views and the heatmap                  *)

\* options.nodeRadius of the canvas backend when the caller gives none
CanvasNodeRadius == 6

\* the place {x, y} that the force simulation has moved a node to
Position(x, y) == [x |-> x, y |-> y]

\* network-vis-canvas.js:250-254  the test of one node in getNodeAtPosition:
\* the distance between the node and transform.invert([x, y]) is less than
\* nodeRadius + 2.  invert gives ((x - t.x) / k, (y - t.y) / k); both sides
\* are multiplied by the scale (in tenths) and squared, which keeps the
\* comparison and stays in the integers
WithinHitRadius(transform, position, nodeRadius, x, y) ==
    LET dx == transform.k * position.x - 10 * (x - transform.x)
        dy == transform.k * position.y - 10 * (y - transform.y)
        reach == transform.k * (nodeRadius + 2)
    IN dx * dx + dy * dy < reach * reach

\* network-vis-canvas.js:245  getNodeAtPosition: the loop returns at the
\* first node of this.nodes that passes the test, null after the loop.
\* positions[i + 1] is the place of node i
getNodeAtPosition(transform, positions, nodeRadius, x, y) ==
    LET hits == {i \in 1..Len(positions) :
                    WithinHitRadius(transform, positions[i], nodeRadius, x, y)}
    IN IF hits = {} THEN NoNode
       ELSE (CHOOSE i \in hits : \A j \in hits : i <= j) - 1

\* one more hover or click event handled by object id
Handled(W, id) ==
    [W EXCEPT !.instances[id].pointerEvents = W.instances[id].pointerEvents + 1]

\* network-vis-canvas.js:173  the mousemove listener; positions are the
\* nodes' places at the moment of the event
NVC_mousemove(W, id, positions, x, y) ==
    LET self == W.instances[id]
        node == getNodeAtPosition(self.transform, positions, CanvasNodeRadius, x, y)
    IN IF node # self.hoveredNode
       THEN [Handled(W, id) EXCEPT
               !.instances[id].hoveredNode = node,
               \* showNodeInfo(node) or hideNodeInfo()
               !.instances[id].infoShown = (node # NoNode)]
       ELSE Handled(W, id)

\* a variant of NVC_click that also resets the view on a hit;
\* PointerHandlersKeepGraphAndView must tell it from NVC_click
NVC_click_ResetView(W, id, positions, x, y) ==
    LET self == W.instances[id]
        node == getNodeAtPosition(self.transform, positions, CanvasNodeRadius, x, y)
    IN IF node # NoNode
       THEN [Handled(W, id) EXCEPT
               !.instances[id].selectedNode =
                   IF self.selectedNode = node THEN NoNode ELSE node,
               !.instances[id].transform = zoomIdentity,
               !.instances[id].hitClicks = Append(self.hitClicks, node)]
       ELSE Handled(W, id)

\* network-vis-canvas.js:191  the click listener: toggles the selection
\* and redraws; dispatches nothing
NVC_click(W, id, positions, x, y) ==
    LET self == W.instances[id]
        node == getNodeAtPosition(self.transform, positions, CanvasNodeRadius, x, y)
    IN IF node # NoNode
       THEN [Handled(W, id) EXCEPT
               !.instances[id].selectedNode =
                   IF self.selectedNode = node THEN NoNode ELSE node,
               !.instances[id].hitClicks = Append(self.hitClicks, node)]
       ELSE Handled(W, id)

\* network-vis.js:258  handleNodeHover(event, d): dims what is not
\* connected to d and shows the tooltip
NV_handleNodeHover(W, id, d) ==
    [Handled(W, id) EXCEPT !.instances[id].highlighted = d,
                           !.instances[id].infoShown = TRUE]

\* network-vis.js:291  handleNodeOut: resets the opacities, hides the tooltip
NV_handleNodeOut(W, id) ==
    [Handled(W, id) EXCEPT !.instances[id].highlighted = NoNode,
                           !.instances[id].infoShown = FALSE]

\* new CustomEvent(type, {detail})
CustomEvent(type, detail) == [type |-> type, detail |-> detail]

\* network-vis.js:302  handleNodeClick(event, d)
NV_handleNodeClick(W, id, d) ==
    LET self == W.instances[id]
    IN [Handled(W, id) EXCEPT
          !.instances[id].dispatched =
              Append(self.dispatched,
                     CustomEvent("nodeClicked", [node |-> d, data |-> self.data])),
          !.instances[id].hitClicks = Append(self.hitClicks, d)]

\* part_001:284-296  the datum bound to the cell of row y and column x
\* (fromToken and toToken are tokens[y] and tokens[x])
Cell(matrix, x, y) == [x |-> x, y |-> y, value |-> matrix[y][x]]

\* part_001:478  handleCellClick(event, d)
AH_handleCellClick(W, id, d) ==
    LET self == W.instances[id]
    IN [Handled(W, id) EXCEPT
          !.instances[id].dispatched =
              Append(self.dispatched,
                     CustomEvent("cellClicked",
                                 [cell |-> d, layer |-> self.currentLayer,
                                  head |-> self.currentHead])),
          !.instances[id].hitClicks = Append(self.hitClicks, d)]

\* the zoom listeners (network-vis-canvas.js:203, network-vis.js:47)
Zoomed(W, id, transform) == [W EXCEPT !.instances[id].transform = transform]

\* the places, pointer coordinates and transforms that are followed
NodePositions == {Position(0, 0), Position(5, 0), Position(30, 0)}

Layouts(nodeCount) == [1..nodeCount -> NodePositions]

PointerXs == {0, 4, 12, 30}

PointerYs == {0, 7}

Transforms == {Transform(k, x, 0) : k \in {5, 10, 20}, x \in {0, 10}}

\* two tokens with a 2 x 2 attention matrix, and a single token
PointerDatasets ==
    {Dataset(2, TRUE, <<Layer(DenseTensor(2, 2, <<400, 300, 200, 400>>), <<>>)>>, FALSE),
     Dataset(1, TRUE, <<Layer(DenseTensor(1, 1, <<400>>), <<>>)>>, FALSE)}

CanBeHandled(id) == instances[id].pointerEvents < MaxPointerEvents

CanvasMouseMove(id, positions, x, y) ==
    /\ instances[id].cls = NetworkCanvas
    /\ CanBeHandled(id)
    /\ Becomes(NVC_mousemove(Now, id, positions, x, y))

CanvasClick(id, positions, x, y) ==
    /\ instances[id].cls = NetworkCanvas
    /\ CanBeHandled(id)
    /\ Becomes(NVC_click(Now, id, positions, x, y))

SvgNodeHover(id, d) ==
    /\ instances[id].cls = NetworkSvg
    /\ CanBeHandled(id)
    /\ Becomes(NV_handleNodeHover(Now, id, d))

SvgNodeOut(id) ==
    /\ instances[id].cls = NetworkSvg
    /\ CanBeHandled(id)
    /\ Becomes(NV_handleNodeOut(Now, id))

SvgNodeClick(id, d) ==
    /\ instances[id].cls = NetworkSvg
    /\ CanBeHandled(id)
    /\ Becomes(NV_handleNodeClick(Now, id, d))

HeatmapCellClick(id, x, y) ==
    /\ instances[id].cls = Heatmap
    /\ instances[id].hasMatrix
    /\ CanBeHandled(id)
    /\ y \in DOMAIN instances[id].attentionMatrix
    /\ x \in DOMAIN instances[id].attentionMatrix[y]
    /\ Becomes(AH_handleCellClick(Now, id, Cell(instances[id].attentionMatrix, x, y)))

Zoom(id, transform) ==
    /\ instances[id].cls \in {NetworkSvg, NetworkCanvas}
    /\ Becomes(Zoomed(Now, id, transform))

\* one view of a small dataset and the pointer events on it
NextPointer ==
    \/ /\ instances = <<>>
       /\ \E cls \in {NetworkSvg, NetworkCanvas, Heatmap}, data \in PointerDatasets :
             HostConstruct(cls, data, Options(MaxCap, 3), 0)
    \/ \E id \in 1..Len(instances), transform \in Transforms : Zoom(id, transform)
    \/ \E id \in 1..Len(instances) :
          \E positions \in Layouts(instances[id].nodes), x \in PointerXs, y \in PointerYs :
             CanvasMouseMove(id, positions, x, y)
    \/ \E id \in 1..Len(instances) :
          \E positions \in Layouts(instances[id].nodes), x \in PointerXs, y \in PointerYs :
             CanvasClick(id, positions, x, y)
    \/ \E id \in 1..Len(instances) :
          \E d \in 0..(instances[id].nodes - 1) : SvgNodeHover(id, d)
    \/ \E id \in 1..Len(instances) : SvgNodeOut(id)
    \/ \E id \in 1..Len(instances) :
          \E d \in 0..(instances[id].nodes - 1) : SvgNodeClick(id, d)
    \/ \E id \in 1..Len(instances), x \in 0..1, y \in 0..1 : HeatmapCellClick(id, x, y)

SpecPointer == Init /\ [][NextPointer]_vars

-----------------------------------------------------------------------------
(* The heatmap of long inputs                                              *)

\* inputs around the downsampling limit of 100 tokens, with three layers
\* of an average and two heads each
HeatmapDatasets ==
    {Dataset(n, TRUE,
             [l \in 1..3 |-> Layer(BandTensor(n), <<BandTensor(n), BandTensor(n)>>)],
             FALSE) : n \in {3, 100, 101, 102, 201}}

\* one heatmap, whose layer and head are changed through its controls
NextHeatmap ==
    \/ /\ instances = <<>>
       /\ \E data \in HeatmapDatasets :
             HostConstruct(Heatmap, data, Options(1, 3), 0)
    \/ \E id \in 1..Len(instances), selectedIndex \in 0..2 :
          LayerSelectChange(id, selectedIndex)
    \/ \E id \in 1..Len(instances), head \in 0..2 : HeadSelectChange(id, head)
    \/ \E id \in 1..Len(instances) : HostDestroy(id)

SpecHeatmap == Init /\ [][NextHeatmap]_vars

-----------------------------------------------------------------------------
(* A graph view whose data is replaced                                     *)

\* instance.updateData(newData) by the host, on a view that is on the page
UpdateData(id, newData) ==
    /\ instances[id].cls = NetworkSvg
    /\ instances[id].dom
    /\ Len(instances[id].rendered) <= MaxUpdates
    /\ Becomes([Now EXCEPT !.instances[id] = NV_updateData(instances[id], newData)])

NextUpdate ==
    \/ /\ instances = <<>>
       /\ \E data \in PointerDatasets \cup PlainDatasets :
             HostConstruct(NetworkSvg, data, Options(1, 3), 0)
    \/ \E id \in 1..Len(instances), newData \in PointerDatasets \cup PlainDatasets :
          UpdateData(id, newData)
    \/ \E id \in 1..Len(instances) : HostDestroy(id)

SpecUpdate == Init /\ [][NextUpdate]_vars

-----------------------------------------------------------------------------
(* processText calls that overlap                                          *)

\* the Process button or an example selection (app.js:76, 423)
ProcessTextCall(blank) ==
    /\ state.requests < MaxRequests
    /\ Becomes(processTextCalled(Now, blank))

\* a request settles, in any of the ways it can
ProcessTextResponse(outcome, data) ==
    /\ state.requests > 0
    /\ Len(instances) < MaxInstances
    /\ Becomes(processTextEnded(Now, outcome, data))

NextProcess ==
    \/ \E blank \in BOOLEAN : ProcessTextCall(blank)
    \/ \E outcome \in FailureOutcomes \cup {"success"}, data \in PlainDatasets :
          ProcessTextResponse(outcome, data)

SpecProcess == Init /\ [][NextProcess]_vars

-----------------------------------------------------------------------------
(* Dragging the nodes of the graph views                                   *)

\* the pointer of the mouse; the others are touches
MousePointer == 1

\* node.fx = x, node.fy = y
Pin(pins, node, x, y) ==
    {pin \in pins : pin.node # node} \cup {[node |-> node, x |-> x, y |-> y]}

\* network-vis.js:242, network-vis-canvas.js:217  on 'start': restarts
\* the simulation if no other gesture is active, and pins the subject
\* where it is
dragStarted(W, id, pointer, node, position) ==
    LET self == W.instances[id]
    IN [W EXCEPT
          !.instances[id].simulation =
              IF self.drags = {} THEN "running" ELSE self.simulation,
          !.instances[id].pins = Pin(self.pins, node, position.x, position.y),
          !.instances[id].drags =
              self.drags \cup {[pointer |-> pointer, subject |-> node]}]

\* network-vis.js:247, network-vis-canvas.js:225  on 'drag': pins the
\* gesture's subject at the pointer
dragged(W, id, pointer, x, y) ==
    LET self == W.instances[id]
        drag == CHOOSE drag \in self.drags : drag.pointer = pointer
    IN [W EXCEPT !.instances[id].pins = Pin(self.pins, drag.subject, x, y)]

\* network-vis.js:251, network-vis-canvas.js:232  on 'end': fx = fy = null
dragEnded(W, id, pointer) ==
    LET self == W.instances[id]
        drag == CHOOSE drag \in self.drags : drag.pointer = pointer
    IN [W EXCEPT
          !.instances[id].pins = {pin \in self.pins : pin.node # drag.subject},
          !.instances[id].drags = self.drags \ {drag}]

Dragging(id, pointer) == \E drag \in instances[id].drags : drag.pointer = pointer

\* a mouse button or a touch goes down on the element of node d
\* (network-vis.js:203-223): d3-drag starts one gesture per pointer, with
\* the element's datum as its subject
SvgDragStart(id, pointer, d, position) ==
    /\ instances[id].cls = NetworkSvg
    /\ ~Dragging(id, pointer)
    /\ Becomes(dragStarted(Now, id, pointer, d, position))

\* network-vis-canvas.js:213-216  the subject is the node under
\* d3.pointer(window.event), which has coordinates for the mouse only; no
\* gesture starts without a subject
CanvasDragStart(id, positions, x, y) ==
    LET node == getNodeAtPosition(instances[id].transform, positions,
                                  CanvasNodeRadius, x, y)
    IN /\ instances[id].cls = NetworkCanvas
       /\ ~Dragging(id, MousePointer)
       /\ node # NoNode
       /\ Becomes(dragStarted(Now, id, MousePointer, node, positions[node + 1]))

DragMove(id, pointer, x, y) ==
    /\ Dragging(id, pointer)
    /\ Becomes(dragged(Now, id, pointer, x, y))

DragEnd(id, pointer) ==
    /\ Dragging(id, pointer)
    /\ Becomes(dragEnded(Now, id, pointer))

\* a graph view of a small dataset, its drag gestures and its ticks
NextDrag ==
    \/ /\ instances = <<>>
       /\ \E cls \in {NetworkSvg, NetworkCanvas}, data \in PointerDatasets :
             HostConstruct(cls, data, Options(MaxCap, 3), 0)
    \/ \E id \in 1..Len(instances), pointer \in 1..MaxPointers :
          \E d \in 0..(instances[id].nodes - 1), position \in NodePositions :
             SvgDragStart(id, pointer, d, position)
    \/ \E id \in 1..Len(instances) :
          \E positions \in Layouts(instances[id].nodes), x \in PointerXs, y \in PointerYs :
             CanvasDragStart(id, positions, x, y)
    \/ \E id \in 1..Len(instances), pointer \in 1..MaxPointers,
          x \in PointerXs, y \in PointerYs : DragMove(id, pointer, x, y)
    \/ \E id \in 1..Len(instances), pointer \in 1..MaxPointers : DragEnd(id, pointer)
    \/ \E id \in 1..Len(instances) : SimulationTick(id)

SpecDrag == Init /\ [][NextDrag]_vars

-----------------------------------------------------------------------------
(* The layer-flow view: construction with any options, and its animation   *)

\* a transition of animateNextLayer on a layer group, with its listener
PendingEnd(group) == [group |-> group, preempted |-> FALSE]

\* selection.transition() on the given groups: a newer transition on an
\* element interrupts the running one when it starts, at the next timer
\* flush, unless the running one ends in that flush first
Preempt(pendingEnds, groups) ==
    [n \in 1..Len(pendingEnds) |->
        IF pendingEnds[n].group \in groups
        THEN [pendingEnds[n] EXCEPT !.preempted = TRUE]
        ELSE pendingEnds[n]]

AllGroups == 0..(NumLayers - 1)

\* a variant of LF_animateNextLayer that never clears isAnimating
LF_animateNextLayer_NeverFinishes(self) ==
    IF self.currentLayer >= Len(self.layers)
    THEN self
    ELSE [self EXCEPT
            !.pendingEnds = Append(Preempt(self.pendingEnds, {self.currentLayer}),
                                   PendingEnd(self.currentLayer))]

\* layer-flow.js:449-471  animateNextLayer: finished after the last layer,
\* otherwise a transition to opacity 1 on the current layer's group
LF_animateNextLayer(self) ==
    IF self.currentLayer >= Len(self.layers)
    THEN [self EXCEPT !.isAnimating = FALSE]
    ELSE [self EXCEPT
            !.pendingEnds = Append(Preempt(self.pendingEnds, {self.currentLayer}),
                                   PendingEnd(self.currentLayer))]

\* layer-flow.js:435  animateFlow
LF_animateFlow(self) ==
    IF self.isAnimating THEN self
    ELSE LF_animateNextLayer(
             [self EXCEPT !.isAnimating = TRUE,
                          !.currentLayer = 0,
                          !.pendingEnds = Preempt(self.pendingEnds, AllGroups)])

\* the sequence without its n-th element
RemoveAt(seq, n) == SubSeq(seq, 1, n - 1) \o SubSeq(seq, n + 1, Len(seq))

\* layer-flow.js:460-470  the 'end' listener of the n-th outstanding
\* transition: fades the previous layer's group, advances currentLayer and
\* goes on; layerGroups[currentLayer - 1] is undefined beyond the last
\* group and the listener then throws before the increment
LF_transitionEnd(self, n) ==
    LET ended == [self EXCEPT !.pendingEnds = RemoveAt(self.pendingEnds, n)]
    IN IF self.currentLayer > NumLayers
       THEN ended
       ELSE LF_animateNextLayer(
                [ended EXCEPT
                   !.pendingEnds =
                       IF self.currentLayer > 0
                       THEN Preempt(ended.pendingEnds, {self.currentLayer - 1})
                       ELSE ended.pendingEnds,
                   !.currentLayer = self.currentLayer + 1])

\* layer-flow.js:477  resetAnimation
LF_resetAnimation(self) ==
    [self EXCEPT !.isAnimating = FALSE,
                 !.currentLayer = 0,
                 !.pendingEnds = Preempt(self.pendingEnds, AllGroups)]

\* the token counts of the flow datasets
FlowTokenCounts ==
    0..MaxFlowTokens \cup {AppConnectionLimit, AppConnectionLimit + 1}

FlowDatasets == {Dataset(n, FALSE, <<>>, FALSE) : n \in FlowTokenCounts}

FlowMaxTokens == 1..MaxFlowCap \cup {DefaultMaxTokens, AppMaxTokens}

\* new LayerFlowVisualization(container, data, {maxTokens, showConnections})
FlowConstruct(data, maxTokens, showConnections) ==
    /\ instances = <<>>
    /\ Becomes(Construct(Now, LayerFlow, data,
                         FlowOptions(maxTokens, showConnections)))

\* a click on 'Animate Flow'
AnimateFlow(id) ==
    /\ instances[id].cls = LayerFlow
    /\ Len(instances[id].pendingEnds) < MaxPendingEnds
    /\ Becomes([Now EXCEPT !.instances[id] = LF_animateFlow(instances[id])])

\* a click on 'Reset'
ResetAnimation(id) ==
    /\ instances[id].cls = LayerFlow
    /\ Becomes([Now EXCEPT !.instances[id] = LF_resetAnimation(instances[id])])

\* the n-th outstanding transition ends and its listener runs
TransitionEnd(id, n) ==
    /\ instances[id].cls = LayerFlow
    /\ n \in 1..Len(instances[id].pendingEnds)
    /\ Becomes([Now EXCEPT !.instances[id] = LF_transitionEnd(instances[id], n)])

\* the newer transition on the group starts first: the n-th outstanding
\* transition is interrupted and its listener never runs
TransitionInterrupted(id, n) ==
    /\ instances[id].cls = LayerFlow
    /\ n \in 1..Len(instances[id].pendingEnds)
    /\ instances[id].pendingEnds[n].preempted
    /\ Becomes([Now EXCEPT !.instances[id].pendingEnds =
                               RemoveAt(instances[id].pendingEnds, n)])

\* a flow view built from any dataset with any options, and destroyed
NextFlow ==
    \/ \E data \in FlowDatasets, maxTokens \in FlowMaxTokens,
          showConnections \in BOOLEAN :
          FlowConstruct(data, maxTokens, showConnections)
    \/ \E id \in 1..Len(instances) : HostDestroy(id)

SpecFlow == Init /\ [][NextFlow]_vars

\* the datasets of the animated views: 0..MaxFlowTokens tokens
SmallFlowDatasets == {Dataset(n, FALSE, <<>>, FALSE) : n \in 0..MaxFlowTokens}

\* the datasets of the views whose buttons are pressed in any order
AnimatedFlowDatasets == {Dataset(n, FALSE, <<>>, FALSE) : n \in {0, 2}}

\* a flow view and every interleaving of its buttons, its transitions'
\* ends and interruptions, and destroy()
NextFlowAnimation ==
    \/ \E data \in AnimatedFlowDatasets :
          FlowConstruct(data, DefaultMaxTokens, TRUE)
    \/ \E id \in 1..Len(instances) : AnimateFlow(id)
    \/ \E id \in 1..Len(instances) : ResetAnimation(id)
    \/ \E id \in 1..Len(instances), n \in 1..MaxPendingEnds : TransitionEnd(id, n)
    \/ \E id \in 1..Len(instances), n \in 1..MaxPendingEnds :
          TransitionInterrupted(id, n)
    \/ \E id \in 1..Len(instances) : HostDestroy(id)

SpecFlowAnimation == Init /\ [][NextFlowAnimation]_vars

\* one animation left to itself: no reset, and every transition ends
NextFlowRun ==
    \/ \E data \in SmallFlowDatasets, maxTokens \in 1..MaxFlowCap,
          showConnections \in BOOLEAN :
          FlowConstruct(data, maxTokens, showConnections)
    \/ \E id \in 1..Len(instances) : AnimateFlow(id)
    \/ \E id \in 1..Len(instances), n \in 1..MaxPendingEnds : TransitionEnd(id, n)

SpecFlowRun ==
    /\ Init
    /\ [][NextFlowRun]_vars
    /\ WF_vars(\E id \in 1..Len(instances), n \in 1..MaxPendingEnds :
                  TransitionEnd(id, n))

-----------------------------------------------------------------------------
(* Specification of the methods that compute a result from their arguments *)
(* alone, called directly with every small argument                       *)

\* the s x s matrix filled with c
ConstantMatrix(s, c) == [i \in 0..(s - 1) |-> [j \in 0..(s - 1) |-> c]]

\* the s x s matrix whose cells count up row by row: 0, 1, 2, ...
RampMatrix(s) == [i \in 0..(s - 1) |-> [j \in 0..(s - 1) |-> i * s + j]]

SquareMatrices ==
    {ConstantMatrix(s, c) : s \in 1..MaxSide, c \in {0} \cup SmallWeights}
    \cup {RampMatrix(s) : s \in 1..MaxSide}

\* heatmap.downsampleMatrix(matrix, targetSize)
CallDownsampleMatrix(matrix, targetSize) ==
    /\ call' = [fn |-> "downsampleMatrix",
                args |-> <<matrix, targetSize>>,
                result |-> downsampleMatrix(matrix, targetSize)]
    /\ UNCHANGED <<state, instances, windowResize>>

\* canvas.getNodeAtPosition(x, y) of an object with the given transform and
\* node places
CallGetNodeAtPosition(transform, positions, x, y) ==
    /\ call' = [fn |-> "getNodeAtPosition",
                args |-> <<transform, positions, x, y>>,
                result |-> getNodeAtPosition(transform, positions,
                                             CanvasNodeRadius, x, y)]
    /\ UNCHANGED <<state, instances, windowResize>>

NextCalls ==
    \/ \E matrix \in SquareMatrices, targetSize \in 1..MaxTarget :
          CallDownsampleMatrix(matrix, targetSize)
    \/ \E nodeCount \in 0..2 :
          \E transform \in Transforms, positions \in Layouts(nodeCount),
             x \in PointerXs, y \in PointerYs :
             CallGetNodeAtPosition(transform, positions, x, y)

SpecCalls == Init /\ [][NextCalls]_vars

-----------------------------------------------------------------------------
(* Properties of the hosting application (Spec)                            *)

\* C1: for the network view, whatever the performance mode and the token
\* count n, the canvas backend is the one constructed iff the mode is
\* 'performance', or the mode is 'auto' and n > 150; 'quality' always gets
\* the SVG backend, auto with 150 tokens gets SVG and auto with 151 canvas.
RenderStrategyPolicy ==
    \A id \in 1..Len(instances) :
        (state.currentVisualization = id /\ state.visualizationMode = "network") =>
            LET n == instances[id].data.tokens
                mode == state.performanceMode
                canvas == instances[id].cls = NetworkCanvas
            IN /\ instances[id].cls \in {NetworkSvg, NetworkCanvas}
               /\ canvas <=> (mode = "performance" \/ (mode = "auto" /\ n > 150))
               /\ mode = "quality" => ~canvas
               /\ (mode = "auto" /\ n = 150) => ~canvas
               /\ (mode = "auto" /\ n = 151) => canvas
               /\ state.useCanvas = canvas

\* auto mode met both sides of the boundary: 150 tokens were drawn by the SVG
\* backend and then 151 tokens by the canvas backend
RenderStrategyBoundaryMet ==
    /\ Len(instances) = 2
    /\ state.performanceMode = "auto"
    /\ state.visualizationMode = "network"
    /\ state.currentVisualization = 2
    /\ instances[1].data.tokens = 150 /\ instances[1].cls = NetworkSvg
    /\ instances[2].data.tokens = 151 /\ instances[2].cls = NetworkCanvas

StaleReduceResponseIsNoOp ==
    \A id \in 1..Len(instances) :
        instances[id].destroyedPending =>
            /\ ~instances[id].scene
            /\ instances[id].renderer = "null"
            /\ ~instances[id].dom
            /\ ~instances[id].frameLoop
            /\ \A listener \in windowResize : listener.inst # id

\* C9: for every dataset, a graph view constructed by initializeVisualization
\* has at most maxLinks edges, where maxLinks is 500 for the SVG backend and
\* 300 for the canvas backend.
EdgeSetWithinCap ==
    \A id \in 1..Len(instances) :
        instances[id].cls \in {NetworkSvg, NetworkCanvas} =>
            /\ instances[id].maxLinks =
                   IF instances[id].cls = NetworkCanvas THEN 300 ELSE 500
            /\ Len(instances[id].links) <= instances[id].maxLinks

-----------------------------------------------------------------------------
(* Properties of one visualization under any host (SpecHost)               *)

\* C3: for every class, once destroy() has returned no simulation tick or
\* animation-frame callback of the object runs again and no listener the
\* object registered (the window's 'resize' listener) remains registered.
DestroyCancelsCallbacks ==
    \A id \in 1..Len(instances) :
        instances[id].destroyCalls >= 1 =>
            /\ ~instances[id].ranAfterDestroy
            /\ instances[id].simulation # "running"
            /\ ~instances[id].frameLoop
            /\ \A listener \in windowResize : listener.inst # id

\* C4: a second destroy() on a destroyed object is a no-op that leaves no
\* frame callback and no simulation active.
SecondDestroyLeavesNothingActive ==
    \A id \in 1..Len(instances) :
        instances[id].destroyCalls >= 2 =>
            /\ ~instances[id].frameLoop
            /\ instances[id].simulation # "running"

\* the tensor that the selection of the heatmap `self` names
CurrentTensor(self) ==
    IF self.data.hasAttention
    THEN SelectedTensor(self.data, self.currentLayer, self.currentHead)
    ELSE AbsentTensor

\* M is a matrix of exactly rows x cols cells
HasShape(M, rows, cols) ==
    /\ DOMAIN M = 0..(rows - 1)
    /\ \A r \in DOMAIN M : DOMAIN M[r] = 0..(cols - 1)

\* the listed indices are pairwise distinct and all below rows * cols
DistinctInRange(t) ==
    /\ \A a, b \in 1..Len(t.indices) : a # b => t.indices[a] # t.indices[b]
    /\ \A a \in 1..Len(t.indices) : t.indices[a] < t.shape[1] * t.shape[2]

\* C6: for a sparse tensor {indices, values, shape = [rows, cols]} whose
\* indices are distinct and all below rows * cols, the reconstructed matrix M
\* has rows x cols cells, M[k div cols][k mod cols] = values[i] for every
\* listed index k = indices[i], and M is 0 at every cell that is not listed.
SparseReconstructionExact ==
    \A id \in 1..Len(instances) :
        LET self == instances[id]
            t == CurrentTensor(self)
            rows == t.shape[1]
            cols == t.shape[2]
            M == self.attentionMatrix
        IN (self.cls = Heatmap /\ t.form = "sparse_weights" /\ DistinctInRange(t)) =>
              /\ HasShape(M, rows, cols)
              /\ \A i \in 1..Len(t.indices) :
                    M[t.indices[i] \div cols][t.indices[i] % cols] = t.values[i]
              /\ \A r \in 0..(rows - 1), c \in 0..(cols - 1) :
                    (\A i \in 1..Len(t.indices) : t.indices[i] # r * cols + c)
                        => M[r][c] = 0

\* a heatmap shows a sparse tensor with two distinct listed cells inside a
\* 2 x 2 shape, so both written and unlisted cells exist
TwoListedCellsReconstructed ==
    \E id \in 1..Len(instances) :
        LET self == instances[id]
            t == CurrentTensor(self)
        IN /\ self.cls = Heatmap
           /\ t.form = "sparse_weights"
           /\ t.shape = <<2, 2>>
           /\ Len(t.indices) = 2
           /\ DistinctInRange(t)
           /\ self.attentionMatrix[t.indices[2] \div 2][t.indices[2] % 2] = 300
           /\ self.attentionMatrix[t.indices[1] \div 2][t.indices[1] % 2] = 200

\* the tensor t without the (index, value) pairs whose index is not below
\* rows * cols
WithoutOutOfRange(t) ==
    LET kept == SelectSeq(SparsePositions(t.indices),
                    LAMBDA k : t.indices[k] < t.shape[1] * t.shape[2])
    IN SparseTensor(t.shape[1], t.shape[2],
                    [k \in 1..Len(kept) |-> t.indices[kept[k]]],
                    [k \in 1..Len(kept) |-> t.values[kept[k]]])

\* C7: for a sparse tensor in which some index is >= rows * cols the
\* reconstruction completes, has exactly rows x cols cells and equals the
\* reconstruction of the tensor without its out-of-range (index, value) pairs.
OutOfRangeEntriesDropped ==
    \A id \in 1..Len(instances) :
        LET self == instances[id]
            t == CurrentTensor(self)
        IN (/\ self.cls = Heatmap
            /\ t.form = "sparse_weights"
            /\ \E i \in 1..Len(t.indices) : t.indices[i] >= t.shape[1] * t.shape[2]) =>
              /\ HasShape(self.attentionMatrix, t.shape[1], t.shape[2])
              /\ self.attentionMatrix = reconstructSparseMatrix(WithoutOutOfRange(t))

\* a heatmap shows a 2 x 2 sparse tensor that lists an index past the last
\* cell before an index inside the shape, and only the latter was written
OutOfRangeEntrySkipped ==
    \E id \in 1..Len(instances) :
        LET self == instances[id]
            t == CurrentTensor(self)
        IN /\ self.cls = Heatmap
           /\ t.form = "sparse_weights"
           /\ t.shape = <<2, 2>>
           /\ Len(t.indices) = 2
           /\ t.indices[1] >= 4 /\ t.values[1] = 300
           /\ t.indices[2] = 3 /\ t.values[2] = 200
           /\ self.attentionMatrix[1][1] = 200
           /\ self.attentionMatrix[0][0] = 0

\* C8: after construction and after any layer or head selection change on a
\* heatmap, when the selected (layer, head) tensor has neither the dense nor
\* the sparse form, attentionMatrix is the all-zero tokens x tokens matrix,
\* never the matrix of an earlier selection.
MissingFormsGiveZeroMatrix ==
    \A id \in 1..Len(instances) :
        (instances[id].cls = Heatmap /\ CurrentTensor(instances[id]).form = "none") =>
            instances[id].attentionMatrix =
                ZeroMatrix(instances[id].data.tokens, instances[id].data.tokens)

\* the links in (row, column) order; listed entries of one cell keep their
\* order
InRowColOrder(links) ==
    LET Key(l) == <<l.source, l.target>>
        Before(a, b) == a[1] < b[1] \/ (a[1] = b[1] /\ a[2] < b[2])
        keys == {Key(links[k]) : k \in 1..Len(links)}
        Rank(key) == Cardinality({other \in keys : Before(other, key)}) + 1
    IN Concat([r \in 1..Cardinality(keys) |->
                 SelectSeq(links, LAMBDA l : Rank(Key(l)) = r)])

\* every candidate edge of a canvas graph view: the cells (dense) or listed
\* entries (sparse) above the threshold between distinct existing nodes
CandidateEdges(self) ==
    LET average == FirstLayerAverage(self.data)
    IN CASE average.form = "weights" ->
                NVC_allLinks(Weights(average), self.data.tokens)
         [] average.form = "sparse_weights" ->
                NVC_processSparse(average, self.data.tokens, Len(average.indices))
         [] OTHER -> <<>>

\* C10: when more candidate edges lie above the threshold than the cap N,
\* the edge set consists of exactly the N candidates of highest weight,
\* equal weights taken in (row, column) order, for dense and sparse input.
CapKeepsHighestWeights ==
    \A id \in 1..Len(instances) :
        LET self == instances[id]
            candidates == CandidateEdges(self)
        IN (self.cls = NetworkCanvas /\ Len(candidates) > self.maxLinks) =>
              /\ Len(self.links) = self.maxLinks
              /\ self.links =
                    Slice(SortByValueDescending(InRowColOrder(candidates)),
                          self.maxLinks)

\* the off-diagonal values of a matrix, row by row
OffDiagonalValues(weights) ==
    LET cells == SelectSeq(Cells(weights), LAMBDA c : c[1] # c[2])
    IN [k \in 1..Len(cells) |-> weights[cells[k][1]][cells[k][2]]]

\* the edges a graph view selects from a dense matrix before the cap
\* truncates them: CandidateEdges for the canvas backend, the whole edge set
\* for the SVG backend, which does not truncate
EdgesBeforeCap(self) ==
    IF self.cls = NetworkCanvas THEN CandidateEdges(self) ELSE self.links

\* C11: for a dense matrix, the edges a graph view selects before the cap
\* truncates them are exactly the off-diagonal cells strictly greater than T,
\* the element at index floor(0.75 * count) of the ascending sort of the
\* count off-diagonal values.
ThresholdOverOffDiagonal ==
    \A id \in 1..Len(instances) :
        LET self == instances[id]
            average == FirstLayerAverage(self.data)
            weights == Weights(average)
            sorted == SortAscending(OffDiagonalValues(weights))
            T == sorted[(Len(sorted) * 3) \div 4 + 1]
            expected == SelectSeq(Cells(weights),
                            LAMBDA c : c[1] # c[2] /\ weights[c[1]][c[2]] > T)
            selected == EdgesBeforeCap(self)
        IN (self.cls \in {NetworkSvg, NetworkCanvas} /\ average.form = "weights") =>
              [k \in 1..Len(selected) |-> <<selected[k].source, selected[k].target>>]
                  = expected

\* C12: every edge of a graph view, in either backend, has strength
\* min(1, max(0, value * 5)) for its raw weight value (1000 stands for 1.0).
EdgeStrengthClamped ==
    \A id \in 1..Len(instances) :
        instances[id].cls \in {NetworkSvg, NetworkCanvas} =>
            \A k \in 1..Len(instances[id].links) :
                LET link == instances[id].links[k]
                    amplified == link.value * 5
                IN link.strength =
                      (IF amplified < 0 THEN 0
                       ELSE IF amplified > 1000 THEN 1000 ELSE amplified)

\* C13: for every dataset, also one whose attention matrix has a side other
\* than the token count, every edge of a graph view, SVG or canvas, joins two
\* distinct existing nodes: source # target and both in 0..nodeCount-1.
EdgesJoinExistingNodes ==
    \A id \in 1..Len(instances) :
        instances[id].cls \in {NetworkSvg, NetworkCanvas} =>
            \A k \in 1..Len(instances[id].links) :
                LET link == instances[id].links[k]
                IN /\ link.source # link.target
                   /\ link.source \in 0..(instances[id].nodes - 1)
                   /\ link.target \in 0..(instances[id].nodes - 1)

\* C16: whenever the embedding view obtains no projection (embeddings
\* absent, or the reduction request fails), reducedCoordinates after
\* processEmbeddings has one entry per token, each entry has `dimensions`
\* (2 or 3) components, and every component lies in [-1, 1].
FallbackCoordinatesWellFormed ==
    \A id \in 1..Len(instances) :
        LET self == instances[id]
        IN (self.cls = Embedding /\ self.coordinates = "random"
                /\ self.dimensions \in 2..3) =>
               /\ Len(self.reducedCoordinates) = self.data.tokens
               /\ \A k \in 1..self.data.tokens :
                      /\ Len(self.reducedCoordinates[k]) = self.dimensions
                      /\ \A d \in 1..self.dimensions :
                             self.reducedCoordinates[k][d] \in -1000..1000

\* the reduction request of a 2-dimensional view of 2 tokens failed and the
\* synthesized vectors have 2 components, the last one at 0.998
FailedReductionSynthesized ==
    \E id \in 1..Len(instances) :
        /\ instances[id].cls = Embedding
        /\ instances[id].reduce = "settled"
        /\ instances[id].coordinates = "random"
        /\ instances[id].dimensions = 2
        /\ instances[id].data.tokens = 2
        /\ instances[id].reducedCoordinates[2] = <<998, 998>>

\* C17: once processEmbeddings has assigned coordinates, the instance
\* carries a fallback mark exactly when the coordinates were synthesized.
FallbackIsMarked ==
    \A id \in 1..Len(instances) :
        (instances[id].cls = Embedding /\ instances[id].coordinates # "null") =>
            (instances[id].fallbackMark <=> instances[id].coordinates = "random")

-----------------------------------------------------------------------------
(* Properties of pointer interaction (SpecPointer)                         *)

\* C18: every click that hits a node of the graph view (either backend) or
\* a cell of the heatmap dispatches exactly one selection event on the
\* container, and the event carries the selected entity and the full
\* dataset.
ClickEmitsSelection ==
    \A id \in 1..Len(instances) :
        LET self == instances[id]
        IN /\ Len(self.dispatched) = Len(self.hitClicks)
           /\ \A k \in 1..Len(self.dispatched) :
                  LET detail == self.dispatched[k].detail
                      entity == IF self.cls = Heatmap THEN "cell" ELSE "node"
                  IN /\ entity \in DOMAIN detail
                     /\ detail[entity] = self.hitClicks[k]
                     /\ "data" \in DOMAIN detail
                     /\ detail.data = self.data

\* the fields of a graph view that C20 names
NamedGraphState(self) ==
    <<self.nodes, self.links, self.transform, self.hoveredNode,
      self.selectedNode, self.highlighted>>

\* the object without the markers, the highlighting, the info box and the
\* dispatched events
WithoutMarkers(self) ==
    [self EXCEPT !.hoveredNode = NoNode, !.selectedNode = NoNode,
                 !.highlighted = NoNode, !.infoShown = FALSE,
                 !.dispatched = <<>>, !.hitClicks = <<>>, !.pointerEvents = 0]

\* the step is a hover or click handler of object id
PointerStep(id) ==
    /\ id \in 1..Len(instances')
    /\ instances'[id].pointerEvents # instances[id].pointerEvents

\* C20: a hover or click handler of the graph view leaves the nodes, the
\* edges, the view transform, the hovered and selected markers and the
\* highlighting of the object as they were.
PointerHandlersChangeNothing ==
    [][\A id \in 1..Len(instances) :
          (PointerStep(id) /\ instances[id].cls \in {NetworkSvg, NetworkCanvas}) =>
              NamedGraphState(instances'[id]) = NamedGraphState(instances[id])]_vars

\* C20, amended: a hover or click handler of the graph view changes at
\* most the hovered and selected markers, the highlighting, the info box
\* and the events dispatched; the nodes, the edges, the view transform and
\* every other field of the object stay as they were.
PointerHandlersKeepGraphAndView ==
    [][\A id \in 1..Len(instances) :
          (PointerStep(id) /\ instances[id].cls \in {NetworkSvg, NetworkCanvas}) =>
              WithoutMarkers(instances'[id]) = WithoutMarkers(instances[id])]_vars

\* a zoomed canvas view of two nodes on which node 1 is hovered and
\* selected after a mousemove and a click
HoveredAndSelectedWhileZoomed ==
    \E id \in 1..Len(instances) :
        /\ instances[id].cls = NetworkCanvas
        /\ instances[id].transform = Transform(20, 10, 0)
        /\ instances[id].hoveredNode = 1
        /\ instances[id].selectedNode = 1
        /\ instances[id].pointerEvents = 2
        /\ Len(instances[id].links) > 0

-----------------------------------------------------------------------------
(* Properties of the directly called methods (SpecCalls)                   *)

\* the least n with n * b >= a, for a >= 1 and b >= 1
Ceiling(a, b) == CHOOSE n \in 1..a : n * b >= a /\ \A m \in 1..(n - 1) : m * b < a

\* C14: for a square source matrix of side s >= 1 and a target t >= 1,
\* downsampleMatrix returns a square matrix of side ceil(s / ceil(s / t)),
\* and that side is never greater than t.
DownsampledSideWithinTarget ==
    call.fn = "downsampleMatrix" =>
        LET s == Length(call.args[1])
            t == call.args[2]
            side == Ceiling(s, Ceiling(s, t))
        IN /\ HasShape(call.result, side, side)
           /\ side <= t

\* a 5 x 5 matrix was downsampled to target 3: blocks of 2, the last row and
\* column of blocks partial, result 3 x 3
PartialBlocksDownsampled ==
    /\ call.fn = "downsampleMatrix"
    /\ Length(call.args[1]) = 5
    /\ call.args[2] = 3
    /\ Length(call.result) = 3

CallDistance(i) ==
    LET transform == call.args[1]
        position == call.args[2][i + 1]
        dx == transform.k * position.x - 10 * (call.args[3] - transform.x)
        dy == transform.k * position.y - 10 * (call.args[4] - transform.y)
    IN dx * dx + dy * dy

\* the nodes of the call within the hit radius of the logical point
CallNodesInReach ==
    LET reach == call.args[1].k * (CanvasNodeRadius + 2)
    IN {i \in 0..(Len(call.args[2]) - 1) : CallDistance(i) < reach * reach}

\* C19: getNodeAtPosition returns null iff no node lies within
\* nodeRadius + 2 of the inverse-transformed point, and otherwise returns
\* a node within that radius that no other node is nearer than.
HitTestReturnsNearest ==
    call.fn = "getNodeAtPosition" =>
        /\ (call.result = NoNode) <=> (CallNodesInReach = {})
        /\ call.result # NoNode =>
               /\ call.result \in CallNodesInReach
               /\ \A i \in CallNodesInReach :
                      CallDistance(call.result) <= CallDistance(i)

-----------------------------------------------------------------------------
(* Properties of the layer-flow view (SpecFlow, SpecFlowAnimation,         *)
(* SpecFlowRun)                                                            *)

\* C21: for every dataset and every maxTokens >= 1 the flow view has 6
\* layer frames of min(tokenCount, maxTokens) nodes each; node k of every
\* frame carries token k of the input, and all nodes of frame i have the
\* y-position given by i * layerSpacing.
FlowFramesHoldFirstTokens ==
    \A id \in 1..Len(instances) :
        LET self == instances[id]
        IN (self.cls = LayerFlow /\ self.maxTokens >= 1) =>
               /\ Len(self.layers) = 6
               /\ \A i \in 0..5 :
                      LET nodes == self.layers[i + 1].nodes
                      IN /\ DOMAIN nodes =
                               0..(Min(self.data.tokens, self.maxTokens) - 1)
                         /\ \A k \in DOMAIN nodes :
                                /\ nodes[k].token = k
                                /\ nodes[k].y = MarginTop + i * LayerSpacing

\* three input tokens capped to two: the last frame's second node carries
\* token 1
FlowTokensCapped ==
    \E id \in 1..Len(instances) :
        /\ instances[id].cls = LayerFlow
        /\ instances[id].data.tokens = 3
        /\ instances[id].maxTokens = 2
        /\ Length(instances[id].layers[6].nodes) = 2
        /\ instances[id].layers[6].nodes[1].token = 1

\* how often the link occurs in this.links
LinkCount(links, link) == Cardinality({n \in 1..Len(links) : links[n] = link})

\* the primary edges are exactly one per frame 0..4 and token, every edge
\* is primary or joins a token to an existing neighbour in the next frame,
\* and the neighbour edges are all present if `shown` and all absent if not
FlowEdgesAre(self, shown) ==
    LET count == Length(self.layers[1].nodes)
        primary(i, k) == FlowLink(i, k, k, 1000, "primary")
        secondary(i, k, t) == FlowLink(i, k, t, 300, "attention")
        neighbours(k) == {k - 1, k + 1} \cap 0..(count - 1)
    IN /\ \A i \in 0..4, k \in 0..(count - 1) :
              /\ LinkCount(self.links, primary(i, k)) = 1
              /\ \A t \in neighbours(k) :
                     LinkCount(self.links, secondary(i, k, t)) =
                         IF shown THEN 1 ELSE 0
       /\ \A n \in 1..Len(self.links) :
              LET link == self.links[n]
              IN /\ link.source[1] \in 0..4
                 /\ link.source[2] \in 0..(count - 1)
                 /\ link.target[1] = link.source[1] + 1
                 /\ link.target[2] \in 0..(count - 1)
                 /\ \/ link = primary(link.source[1], link.source[2])
                    \/ /\ link.target[2] \in neighbours(link.source[2])
                       /\ link = secondary(link.source[1], link.source[2],
                                           link.target[2])

\* C22: one primary edge of strength 1.0 per frame 0..4 and token; the
\* secondary edges of strength 0.3 to the existing neighbours are present
\* iff the connection-display option is enabled and the token count is at
\* most 30; every edge's target is a node of the next frame.
FlowEdgesFollowOptionAndLimit ==
    \A id \in 1..Len(instances) :
        instances[id].cls = LayerFlow =>
            FlowEdgesAre(instances[id],
                         instances[id].showConnections
                         /\ instances[id].data.tokens <= AppConnectionLimit)

\* C22, amended: as above, but the secondary edges are present iff the
\* connection-display option is enabled, whatever the token count.
FlowEdgesFollowOption ==
    \A id \in 1..Len(instances) :
        instances[id].cls = LayerFlow =>
            FlowEdgesAre(instances[id], instances[id].showConnections)

\* a view of 31 tokens with the option enabled has the secondary edge from
\* the last token of frame 0 to its left neighbour in frame 1
FlowNeighboursBeyondLimit ==
    \E id \in 1..Len(instances) :
        /\ instances[id].cls = LayerFlow
        /\ instances[id].showConnections
        /\ Len(instances[id].tokens) = AppConnectionLimit + 1
        /\ LinkCount(instances[id].links,
                     FlowLink(0, AppConnectionLimit, AppConnectionLimit - 1,
                              300, "attention")) = 1

\* the outstanding transitions of the animation that no newer transition
\* is about to interrupt
LiveChains(self) ==
    {n \in 1..Len(self.pendingEnds) : ~self.pendingEnds[n].preempted}

\* C29: in every interleaving of animateFlow, resetAnimation and
\* transition ends at most one layer-animation chain is in progress, and
\* currentLayer stays within 0..layers.length.
OneAnimationChain ==
    \A id \in 1..Len(instances) :
        instances[id].cls = LayerFlow =>
            /\ Cardinality(LiveChains(instances[id])) <= 1
            /\ instances[id].currentLayer \in 0..Len(instances[id].layers)

\* the view is animating
FlowAnimating == Len(instances) = 1 /\ instances[1].isAnimating

\* the animation is over: isAnimating is false and currentLayer is 6
FlowAnimationFinished ==
    /\ Len(instances) = 1
    /\ ~instances[1].isAnimating
    /\ instances[1].currentLayer = Len(instances[1].layers)
    /\ instances[1].currentLayer = 6
    /\ instances[1].pendingEnds = <<>>

\* a step of the view's animation: a highlight of layer 0 begins from rest,
\* or the highlight moves on by one layer, or the last highlight ends
FlowHighlightStep ==
    LET before == instances[1]
        after == instances'[1]
    IN \/ /\ ~before.isAnimating
          /\ after.isAnimating
          /\ after.currentLayer = 0
          /\ after.pendingEnds = <<PendingEnd(0)>>
       \/ /\ before.isAnimating
          /\ before.pendingEnds = <<PendingEnd(before.currentLayer)>>
          /\ after.currentLayer = before.currentLayer + 1
          /\ IF after.currentLayer < 6
             THEN /\ after.isAnimating
                  /\ after.pendingEnds = <<PendingEnd(after.currentLayer)>>
             ELSE /\ ~after.isAnimating
                  /\ after.pendingEnds = <<>>

\* C30: with every transition ending and no reset, an animation that was
\* started highlights the layers one at a time in the order 0, 1, ..., 5
\* and eventually finishes with isAnimating = false and currentLayer = 6;
\* from there animateFlow starts the next animation.
FlowAnimationRunsToEnd ==
    /\ [][(Len(instances) = 1 /\ Len(instances') = 1) => FlowHighlightStep]_vars
    /\ FlowAnimating ~> FlowAnimationFinished

\* an animation has run through all six layers of a two-token view
FlowAnimationRanThrough ==
    /\ FlowAnimationFinished
    /\ Len(instances[1].tokens) = 2

-----------------------------------------------------------------------------
(* Properties of dragging (SpecDrag)                                       *)

\* C23: in every interleaving of drag starts, moves, ends and ticks a node
\* is pinned iff a drag of that node is in progress; hence no node is
\* pinned once all drags have ended.
PinnedIffDragged ==
    \A id \in 1..Len(instances) :
        \A node \in 0..(instances[id].nodes - 1) :
            (\E pin \in instances[id].pins : pin.node = node)
            <=> (\E drag \in instances[id].drags : drag.subject = node)

-----------------------------------------------------------------------------
(* Properties of processText (SpecProcess)                                 *)

\* C24: the loading overlay is active whenever at least one inference
\* request is outstanding, and inactive once every request has settled.
LoadingWhileOutstanding == state.loading <=> state.requests > 0

\* the step ends a processText call in failure
FailedCallEnds ==
    /\ state'.lastOutcome # state.lastOutcome
    /\ state'.lastOutcome.kind \in FailureOutcomes \cup {"blank"}

\* the failed call changed neither the data nor the visualization,
\* reported an error, and sent nothing if the text was blank
FailedCallKeepsResults ==
    /\ state'.processingData = state.processingData
    /\ state'.currentVisualization = state.currentVisualization
    /\ instances' = instances
    /\ state'.errorMessage # "none"
    /\ state'.lastOutcome.kind = "blank" => state'.requests = state.requests

\* C28: a processText call that fails (blank text, HTTP error, success =
\* false, network exception, timeout) leaves processingData and
\* currentVisualization unchanged and reports an error; blank text sends
\* no request; and the call ends with the loading overlay off.
FailedCallLeavesLoadingOff ==
    [][FailedCallEnds => (FailedCallKeepsResults /\ ~state'.loading)]_vars

\* C28, amended: as above, but the overlay is switched off by the calls
\* that sent a request; a blank-text call leaves the overlay as it was.
FailedCallLeavesResults ==
    [][FailedCallEnds =>
          /\ FailedCallKeepsResults
          /\ IF state'.lastOutcome.kind = "blank"
             THEN state'.loading = state.loading
             ELSE ~state'.loading]_vars

\* a request timed out after an earlier one had succeeded: the data and
\* the visualization of the earlier one are in place
TimedOutAfterSuccess ==
    /\ state.lastOutcome.kind = "timeout"
    /\ state.errorMessage = "Request timed out. The text might be too long. Please try a shorter text."
    /\ state.processingData # <<>>
    /\ state.currentVisualization = 1
    /\ ~state.loading

-----------------------------------------------------------------------------
(* Properties of the heatmap labels (SpecHeatmap)                          *)

\* the token count of a block of the downsampled matrix of `self`
HeatmapBlockSize(self) ==
    CeilDiv(self.data.tokens, Length(self.attentionMatrix))

\* C25: when the heatmap matrix is downsampled with a block size above 1,
\* then after the initial render and after every layer or head change the
\* from/to label of each cell is the range marker [first-last] of its
\* block (block i covers i * blockSize .. min((i+1) * blockSize, tokens) - 1),
\* never a single token's label.
DownsampledCellsCarryRanges ==
    \A id \in 1..Len(instances) :
        LET self == instances[id]
            blockSize == HeatmapBlockSize(self)
        IN (self.cls = Heatmap /\ self.dom /\ self.isDownsampled /\ blockSize > 1) =>
              \A i \in 0..(Length(self.attentionMatrix) - 1) :
                  /\ i \in DOMAIN self.cellTokens
                  /\ self.cellTokens[i] =
                        RangeLabel(i * blockSize,
                                   Min((i + 1) * blockSize, self.data.tokens) - 1)

-----------------------------------------------------------------------------
(* Properties of updateData (SpecUpdate)                                   *)

\* C26: after updateData(newData), called any number of times, exactly one
\* force simulation is active and the rendered node and link elements are
\* exactly those of newData; nothing of an earlier dataset remains.
UpdateDataReplacesGraph ==
    \A id \in 1..Len(instances) :
        LET self == instances[id]
        IN (self.cls = NetworkSvg /\ self.dom) =>
              /\ self.simulation = "running"
              /\ self.replacedSimulations = 0
              /\ self.rendered =
                    <<[nodes |-> self.data.tokens, links |-> NV_processData(self.data)]>>

-----------------------------------------------------------------------------
(* Dense and sparse forms of one matrix (SpecHost)                         *)

\* the sparse form of the matrix of a dense tensor: its non-zero cells in
\* row order, under the shape of the matrix
SparseEncoding(t) ==
    LET weights == Weights(t)
        cells == SelectSeq(Cells(weights), LAMBDA c : weights[c[1]][c[2]] # 0)
    IN SparseTensor(t.shape[1], t.shape[2],
                    [k \in 1..Len(cells) |-> cells[k][1] * t.shape[2] + cells[k][2]],
                    [k \in 1..Len(cells) |-> weights[cells[k][1]][cells[k][2]]])

\* the edges of a list of links
EdgeSet(links) ==
    {<<links[k].source, links[k].target>> : k \in DOMAIN links}

\* C27: for any attention matrix, the graph view produces the same edge set
\* from the dense form and from the sparse encoding of the same matrix.
SameEdgesFromDenseAndSparse ==
    \A id \in 1..Len(instances) :
        LET self == instances[id]
            average == FirstLayerAverage(self.data)
            encoded == [self.data EXCEPT !.layers[1].average = SparseEncoding(average)]
        IN (self.cls \in {NetworkSvg, NetworkCanvas} /\ average.form = "weights") =>
              EdgeSet(self.links) =
                  EdgeSet(IF self.cls = NetworkSvg THEN NV_processData(encoded)
                          ELSE NVC_processData(encoded, self.maxLinks))

=============================================================================
